---- MODULE Spec2Model ----
(***************************************************************************)
(* Verification model of the schema-aware query refinement engine of       *)
(* kyongs/text-to-sql-analysis:                                            *)
(*   - OpenAIModel.generate (tool phase, note-taking loop, refine loop),   *)
(*     ParsingNoteTaker and process_item           -> specification Spec   *)
(*   - build_enhanced_graph / find_all_paths / find_join_path              *)
(*                                                 -> specification PathSpec*)
(*   - JoinInspector.inspect_join                  -> specification InspectSpec*)
(***************************************************************************)
EXTENDS Integers, Sequences, FiniteSets, TLC

\* Python's None where the value is a string
None == "None"

\* ------------------------------------------------------------------------
\* SQL text.  A query text is a sequence of tokens:
\*   [k |-> "w",   a |-> word, c |-> ""]    a \w+ word (keyword, name, number)
\*   [k |-> "ref", a |-> w1,   c |-> w2]    the text  w1.w2
\*   [k |-> "sym", a |-> s,    c |-> ""]    punctuation or an operator
\* tokens are separated by whitespace.
\* ------------------------------------------------------------------------
W(s) == [k |-> "w", a |-> s, c |-> ""]

R(x, y) == [k |-> "ref", a |-> x, c |-> y]

Sym(s) == [k |-> "sym", a |-> s, c |-> ""]

\* str.upper() on the words the model uses
Upper(s) ==
    CASE s = "select" -> "SELECT" [] s = "from" -> "FROM" [] s = "join" -> "JOIN"
      [] s = "on" -> "ON" [] s = "where" -> "WHERE" [] s = "as" -> "AS"
      [] s = "left" -> "LEFT" [] s = "group" -> "GROUP" [] s = "by" -> "BY"
      [] s = "x" -> "X" [] s = "y" -> "Y" [] s = "z" -> "Z"
      [] s = "a" -> "A" [] s = "b" -> "B" [] s = "c" -> "C"
      [] s = "t1" -> "T1" [] s = "t2" -> "T2"
      [] s = "limit" -> "LIMIT" [] s = "credit_limit" -> "CREDIT_LIMIT"
      [] OTHER -> s

UpperTok(tok) == [k |-> tok.k, a |-> Upper(tok.a), c |-> Upper(tok.c)]

UpperSql(s) == [i \in 1..Len(s) |-> UpperTok(s[i])]

sql_keywords ==
    {"ON", "JOIN", "LEFT", "RIGHT", "INNER", "OUTER", "CROSS",
     "WHERE", "GROUP", "ORDER", "HAVING", "LIMIT", "AND", "OR", "AS"}

JoinModifiers == {"LEFT", "RIGHT", "INNER", "OUTER", "CROSS"}

IsWord(tok, w) == tok.k = "w" /\ tok.a = w

\* the token starts with a \w+ word
HasPrefix(tok) == tok.k \in {"w", "ref"}

\* (?:FROM|(?:LEFT|RIGHT|INNER|OUTER|CROSS)?\s*JOIN) matched at token i:
\* the number of tokens it takes, 0 when it does not match there
KwLen(s, i) ==
    IF i > Len(s) THEN 0
    ELSE IF IsWord(s[i], "FROM") \/ IsWord(s[i], "JOIN") THEN 1
    ELSE IF /\ s[i].k = "w" /\ s[i].a \in JoinModifiers
            /\ i + 1 <= Len(s) /\ IsWord(s[i + 1], "JOIN") THEN 2
    ELSE 0

\* re.findall(table_pattern): left to right, matches do not overlap
RECURSIVE TableNames(_, _)
TableNames(s, i) ==
    IF i > Len(s) THEN <<>>
    ELSE LET n == KwLen(s, i) IN
         IF n > 0 /\ i + n <= Len(s) /\ HasPrefix(s[i + n])
         THEN <<s[i + n].a>> \o TableNames(s, i + n + 1)
         ELSE TableNames(s, i + 1)

\* re.findall(alias_pattern): KW \s+ (\w+) \s+ (?:AS\s+)? (\w+); what a match
\* takes (the alias word included) is not scanned again
RECURSIVE AliasMatches(_, _)
AliasMatches(s, i) ==
    IF i > Len(s) THEN <<>>
    ELSE LET n == KwLen(s, i)
             j == i + n
         IN IF n > 0 /\ j <= Len(s) /\ s[j].k = "w"
            THEN IF j + 2 <= Len(s) /\ IsWord(s[j + 1], "AS") /\ HasPrefix(s[j + 2])
                 THEN <<[table |-> s[j].a, alias |-> s[j + 2].a]>>
                          \o AliasMatches(s, j + 3)
                 ELSE IF j + 1 <= Len(s) /\ HasPrefix(s[j + 1])
                 THEN <<[table |-> s[j].a, alias |-> s[j + 1].a]>>
                          \o AliasMatches(s, j + 2)
                 ELSE AliasMatches(s, i + 1)
            ELSE AliasMatches(s, i + 1)

\* tables = {}: every table is its own alias, then the alias matches in order
RECURSIVE ApplyAliases(_, _)
ApplyAliases(tabs, ms) ==
    IF ms = <<>> THEN tabs
    ELSE LET m == Head(ms) IN
         ApplyAliases(IF m.alias \in sql_keywords THEN tabs
                      ELSE (m.alias :> m.table) @@ tabs, Tail(ms))

AliasTable(s) ==
    LET names == TableNames(s, 1)
        self == [t \in {names[i] : i \in 1..Len(names)} |-> t]
    IN ApplyAliases(self, AliasMatches(s, 1))

\* tables.get(alias, alias)
Resolve(tabs, x) == IF x \in DOMAIN tabs THEN tabs[x] ELSE x

\* index of the first token after position i that is one of the words ws
\* (Len(s) + 1 when there is none)
FirstWordAfter(s, i, ws) ==
    LET hits == {j \in (i + 1)..Len(s) : s[j].k = "w" /\ s[j].a \in ws}
    IN IF hits = {} THEN Len(s) + 1
       ELSE CHOOSE j \in hits : \A h \in hits : j <= h

\* re.findall(r'(\w+)\.(\w+)') over tokens lo..hi, resolved through the aliases
RefsBetween(s, tabs, lo, hi) ==
    {[t |-> Resolve(tabs, s[i].a), c |-> s[i].c] :
        i \in {j \in lo..hi : j >= 1 /\ j <= Len(s) /\ s[j].k = "ref"}}

SelectColumns(s, tabs) ==
    LET p == FirstWordAfter(s, 0, {"SELECT"})
        q == FirstWordAfter(s, p, {"FROM"})
    IN IF p > Len(s) \/ q > Len(s) THEN {}
       ELSE RefsBetween(s, tabs, p + 1, q - 1)

WhereColumns(s, tabs) ==
    LET p == FirstWordAfter(s, 0, {"WHERE"})
        q == FirstWordAfter(s, p, {"ORDER", "GROUP", "LIMIT", "HAVING"})
    IN IF p > Len(s) THEN {} ELSE RefsBetween(s, tabs, p + 1, q - 1)

GroupColumns(s, tabs) ==
    LET starts == {j \in 1..Len(s) : /\ IsWord(s[j], "GROUP")
                                     /\ j + 1 <= Len(s) /\ IsWord(s[j + 1], "BY")}
        p == CHOOSE j \in starts : \A h \in starts : j <= h
        q == FirstWordAfter(s, p + 1, {"ORDER", "HAVING", "LIMIT"})
    IN IF starts = {} THEN {} ELSE RefsBetween(s, tabs, p + 2, q - 1)

\* re.findall(r'ON\s+(\w+)\.(\w+)\s*=\s*(\w+)\.(\w+)')
RECURSIVE JoinMatches(_, _, _)
JoinMatches(s, tabs, i) ==
    IF i + 3 > Len(s) THEN <<>>
    ELSE IF /\ IsWord(s[i], "ON") /\ s[i + 1].k = "ref"
            /\ s[i + 2] = Sym("=") /\ s[i + 3].k = "ref"
         THEN <<<<[t |-> Resolve(tabs, s[i + 1].a), c |-> s[i + 1].c],
                  [t |-> Resolve(tabs, s[i + 3].a), c |-> s[i + 3].c]>>>>
                 \o JoinMatches(s, tabs, i + 4)
         ELSE JoinMatches(s, tabs, i + 1)

Range(f) == {f[i] : i \in DOMAIN f}

\* ParsingNoteTaker.parse_sql
parse_sql(sql) ==
    IF sql = <<>> THEN [tables |-> {}, columns |-> {}, joins |-> <<>>]
    ELSE LET s == UpperSql(sql)
             tabs == AliasTable(s)
             joins == JoinMatches(s, tabs, 1)
             join_columns == UNION {{joins[i][1], joins[i][2]} : i \in 1..Len(joins)}
         IN [tables |-> Range(tabs),
             columns |-> SelectColumns(s, tabs) \cup WhereColumns(s, tabs)
                             \cup GroupColumns(s, tabs) \cup join_columns,
             joins |-> joins]


\* ------------------------------------------------------------------------
\* Hints (dataset item) and the schema check
\* A column string of an item is R(table, column) ("T.c") or W(name) (no dot).
\* A canonical TABLE.COLUMN string is the record [t, c]; a string without a
\* dot has t = "".
\* ------------------------------------------------------------------------
Canon(col) ==
    IF col.k = "ref" THEN [t |-> Upper(col.a), c |-> Upper(col.c)]
    ELSE [t |-> "", c |-> Upper(col.a)]

HasDot(col) == col.k = "ref"

\* ParsingNoteTaker.parse_hints
parse_hints(item) ==
    LET cols == UNION {Range(item.mapping[i].columns) : i \in 1..Len(item.mapping)}
        two == SelectSeq(item.join_keys, LAMBDA p : Len(p) = 2)
        jcols == UNION {Range(two[i]) : i \in 1..Len(two)}
    IN [columns |-> {Canon(col) : col \in {x \in cols : HasDot(x)}},
        tables |-> {Upper(col.a) : col \in {x \in cols \cup jcols : HasDot(x)}},
        joins |-> [n \in 1..Len(two) |-> <<Canon(two[n][1]), Canon(two[n][2])>>]]

\* the pair as written, its order kept
Unordered_Ordered(p) == <<p[1], p[2]>>

\* tuple(sorted([a, b])): the pair without its order
Unordered(p) == {p[1], p[2]}

\* ParsingNoteTaker.compare
compare(hints_parsed, sql_parsed) ==
    [missing_tables |-> hints_parsed.tables \ sql_parsed.tables,
     missing_columns |-> hints_parsed.columns \ sql_parsed.columns,
     missing_joins |->
         {Unordered(hints_parsed.joins[i]) : i \in 1..Len(hints_parsed.joins)}
         \ {Unordered(sql_parsed.joins[i]) : i \in 1..Len(sql_parsed.joins)}]

\* at most this many used columns are listed in a schema check
MaxShownUsed == 5

\* list(used_columns)[:5]
ShownUsed(used) ==
    IF Cardinality(used) <= MaxShownUsed THEN used
    ELSE CHOOSE S \in SUBSET used : Cardinality(S) = MaxShownUsed

\* ParsingNoteTaker.generate_schema_check: the text as its set of lines;
\* mark "unchecked" is the ballot box, "checked" the ticked box
generate_schema_check(hints_parsed, sql) ==
    IF sql = <<>> THEN [head |-> "no_hints", lines |-> {}]
    ELSE LET cmp == compare(hints_parsed, parse_sql(sql))
             used == hints_parsed.columns \ cmp.missing_columns
             lines ==
                {[mark |-> "unchecked", what |-> "column", item |-> {x}] :
                     x \in cmp.missing_columns}
                \cup {[mark |-> "unchecked", what |-> "join", item |-> x] :
                     x \in cmp.missing_joins}
                \cup {[mark |-> "unchecked", what |-> "table", item |-> {[t |-> x, c |-> ""]}] :
                     x \in cmp.missing_tables}
                \cup {[mark |-> "checked", what |-> "column", item |-> {x}] :
                     x \in ShownUsed(used)}
                \cup (IF Cardinality(used) > MaxShownUsed
                      THEN {[mark |-> "more", what |-> "column", item |-> {}]}
                      ELSE {})
         IN IF lines = {} THEN [head |-> "all_used", lines |-> {}]
            ELSE [head |-> "lines", lines |-> lines]

\* the ballot box occurs in the schema check text
HasUnchecked(schema_check) == \E l \in schema_check.lines : l.mark = "unchecked"

\* ------------------------------------------------------------------------
\* Execution of a candidate query
\* ------------------------------------------------------------------------
\* rows kept of a result set
ResultsKept == 5

Min(x, y) == IF x <= y THEN x ELSE y

\* what the data store does with one statement
RowCounts == {0, 1}

DbBehaviours ==
    [kind : {"rows"}, n : RowCounts, close_ok : BOOLEAN]
    \cup [kind : {"timeout", "mysql_error", "exception"}, n : {0}, close_ok : {TRUE}]

\* OpenAIModel._execute_sql: the result dict for a behaviour of the data store
execute_sql(beh) ==
    CASE beh.kind = "rows" /\ beh.close_ok ->
             [success |-> TRUE, row_count |-> beh.n, error |-> None,
              error_type |-> IF beh.n = 0 THEN "empty_result" ELSE None,
              results |-> Min(beh.n, ResultsKept)]
      [] beh.kind = "rows" /\ ~beh.close_ok ->
             \* cursor.close()/conn.close() raised after the flags were set
             [success |-> TRUE, row_count |-> beh.n, error |-> "close failed",
              error_type |-> "syntax_error", results |-> Min(beh.n, ResultsKept)]
      [] beh.kind = "timeout" ->
             [success |-> FALSE, row_count |-> 0,
              error |-> "query interrupted: max_execution_time exceeded",
              error_type |-> "timeout", results |-> 0]
      [] beh.kind = "mysql_error" ->
             [success |-> FALSE, row_count |-> 0, error |-> "mysql error",
              error_type |-> "syntax_error", results |-> 0]
      [] OTHER ->
             [success |-> FALSE, row_count |-> 0, error |-> "exception",
              error_type |-> "syntax_error", results |-> 0]

\* dict.get(key, default)
Get(d, key, default) == IF key \in DOMAIN d THEN d[key] ELSE default

\* ParsingNoteTaker.generate_refine_feedback: the text as a record
generate_refine_feedback(exec_result) ==
    LET success == Get(exec_result, "success", FALSE)
        error_type == Get(exec_result, "error_type", "")
        error_message == Get(exec_result, "error_message", "")
        row_count == Get(exec_result, "row_count", 0)
    IN IF success /\ row_count > 0
       THEN [mark |-> "ok", row_count |-> row_count, error_type |-> "", short_error |-> ""]
       ELSE IF success /\ row_count = 0
       THEN [mark |-> "warn", row_count |-> 0, error_type |-> "", short_error |-> ""]
       ELSE [mark |-> "err", row_count |-> 0, error_type |-> error_type,
             short_error |-> error_message]

\* a refine feedback that is None
NoFeedback == [mark |-> "none", row_count |-> 0, error_type |-> "", short_error |-> ""]


\* ------------------------------------------------------------------------
\* Inputs of the refinement engine
\* ------------------------------------------------------------------------
\* refine_agents.max_iterations ranges over 0..MaxRefine
MaxRefine == 2

\* generate's max_iterations ranges over 0..MaxToolIter
MaxToolIter == 2

\* candidate query texts the generation collaborator can answer with
Queries ==
    << \* SELECT t1.a FROM X t1 JOIN Y t2 ON t1.a = t2.b
       <<W("SELECT"), R("t1", "a"), W("FROM"), W("X"), W("t1"), W("JOIN"), W("Y"),
         W("t2"), W("ON"), R("t1", "a"), Sym("="), R("t2", "b")>>,
       \* select a from X
       <<W("select"), W("a"), W("from"), W("X")>> >>

Candidates == 1..Len(Queries)

\* no SQL (None or an empty string)
NoSql == 0

SqlText(c) == IF c = NoSql THEN <<>> ELSE Queries[c]

\* dataset items: given = the item is a non-empty dict
NoItem == [given |-> FALSE, mapping |-> <<>>, join_keys |-> <<>>]

Items ==
    { \* mapping {'kw': ['X.a']}, join_keys [['X.a', 'Y.b']]
      [given |-> TRUE,
       mapping |-> <<[keyword |-> "kw", columns |-> <<R("X", "a")>>]>>,
       join_keys |-> << <<R("X", "a"), R("Y", "b")>> >>],
      \* no mapping and no join keys
      [given |-> TRUE, mapping |-> <<>>, join_keys |-> <<>>] }

\* message.content of a response: None ("null"), text without SQL ("prose"),
\* a SQL statement, bare or fenced ("sql")
NullContent == [kind |-> "null", cand |-> NoSql]

Contents ==
    {NullContent, [kind |-> "prose", cand |-> NoSql]}
    \cup {[kind |-> "sql", cand |-> c] : c \in Candidates}

ToolNames == {"lookup_column_values", "find_join_path"}

\* the API call raised
ApiError == [tool_calls |-> <<>>, content |-> [kind |-> "raise", cand |-> NoSql]]

\* response not yet bound
Unbound == [tool_calls |-> <<>>, content |-> [kind |-> "unbound", cand |-> NoSql]]

\* client.chat.completions.create: what the generation collaborator can do;
\* tool calls are only possible when tools are passed
ApiOutcomes(use_tools) ==
    {ApiError} \cup {[tool_calls |-> <<>>, content |-> c] : c \in Contents}
    \cup (IF use_tools
          THEN {[tool_calls |-> <<t>>, content |-> NullContent] : t \in ToolNames}
          ELSE {})

\* what the data store does to a candidate inside the refine loop
LoopDbBehaviours ==
    {b \in DbBehaviours : b.kind \in {"rows", "timeout", "mysql_error"} /\ b.close_ok}

\* what the data store does to a candidate inside the note-taking loop, which
\* reads of a failure only that it failed
NoteDbBehaviours == {b \in LoopDbBehaviours : b.kind # "timeout"}

\* replies of the critique collaborator: "raise" = the call raised
CritiqueReplies == {"OK", "", "LIMIT is not asked for", "raise"}

\* OpenAIModel._extract_sql_from_response
extract_sql(content) ==
    IF content.kind = "sql" THEN content.cand ELSE NoSql

\* OpenAIModel._get_llm_feedback, given the reply of the critique collaborator
get_llm_feedback(sql, item, reply) ==
    IF sql = NoSql \/ ~item.given THEN None
    ELSE IF reply = "raise" THEN None
    ELSE IF reply = "OK" THEN None
    ELSE reply


\* ------------------------------------------------------------------------
\* Join path finder (src/agent/join_path_finder.py)
\* ------------------------------------------------------------------------
\* a relationship record of the join keys file; kind "list" is
\* ["T1.K1", "T2.K2"], kind "dict" the dict format, any other kind is skipped
Rel(kind, t1, k1, t2, k2) ==
    [kind |-> kind, table1 |-> t1, key1 |-> k1, table2 |-> t2, key2 |-> k2]

\* pk_candidates.get(t, {}) of a table without an entry
NoPkInfo == [recommended_pk |-> None, pk_candidates |-> <<>>]

\* get_column_uniqueness: uniqueness_percent of the first candidate on the column
get_column_uniqueness(pk_info, column) ==
    LET hits == SelectSeq(pk_info.pk_candidates, LAMBDA c : c.column = column)
    IN IF hits = <<>> THEN 0 ELSE hits[1].uniqueness_percent

\* the graph before any record: no table, no edge
EmptyGraph == [nbrs |-> <<>>, edge |-> <<>>]

\* lines 125-152 of build_enhanced_graph: one record is entered; nbrs[t] are
\* the keys of graph[t] in insertion order, edge[<<a, b>>] is graph[a][b]
AddEntry(g, entry, pk_candidates) ==
    LET t1 == entry.table1
        t2 == entry.table2
        pk_info1 == pk_candidates[t1]
        pk_info2 == pk_candidates[t2]
        uniqueness1 == get_column_uniqueness(pk_info1, entry.key1)
        uniqueness2 == get_column_uniqueness(pk_info2, entry.key2)
        n1 == IF t1 \in DOMAIN g.nbrs THEN g.nbrs ELSE g.nbrs @@ (t1 :> <<>>)
        n2 == IF t2 \in DOMAIN n1 THEN n1 ELSE n1 @@ (t2 :> <<>>)
        n3 == [n2 EXCEPT ![t1] = IF t2 \in Range(@) THEN @ ELSE Append(@, t2)]
        n4 == [n3 EXCEPT ![t2] = IF t1 \in Range(@) THEN @ ELSE Append(@, t1)]
        edge_data == [key1 |-> entry.key1, key2 |-> entry.key2,
                      pk1 |-> pk_info1.recommended_pk, pk2 |-> pk_info2.recommended_pk,
                      uniqueness1 |-> uniqueness1, uniqueness2 |-> uniqueness2]
        mirror == [key1 |-> entry.key2, key2 |-> entry.key1,
                   pk1 |-> pk_info2.recommended_pk, pk2 |-> pk_info1.recommended_pk,
                   uniqueness1 |-> uniqueness2, uniqueness2 |-> uniqueness1]
        e1 == (<<t1, t2>> :> edge_data) @@ g.edge
        e2 == (<<t2, t1>> :> mirror) @@ e1
    IN [nbrs |-> n4, edge |-> e2]

RECURSIVE build_enhanced_graph(_, _)
\* build_enhanced_graph: the records are entered in order
build_enhanced_graph(join_keys, pk_candidates) ==
    IF join_keys = <<>> THEN EmptyGraph
    ELSE LET g == build_enhanced_graph(SubSeq(join_keys, 1, Len(join_keys) - 1),
                                        pk_candidates)
             entry == join_keys[Len(join_keys)]
         IN IF entry.kind \in {"list", "dict"} THEN AddEntry(g, entry, pk_candidates)
            ELSE g

\* a variant of the length test that cuts one table earlier
TooLong_Early(path, max_length) == Len(path) >= max_length

\* line 185 of find_all_paths
TooLong(path, max_length) == Len(path) > max_length

\* a variant of the visited test that lets every neighbour through
Unvisited_Always(neighbor, path) == TRUE

\* line 193 of find_all_paths: visited holds the tables of path
Unvisited(neighbor, path) == neighbor \notin Range(path)

RECURSIVE dfs(_, _, _, _, _)
RECURSIVE DfsNeighbors(_, _, _, _, _)
\* dfs of find_all_paths: the paths appended to all_paths, in order
dfs(graph, current, target, path, max_length) ==
    IF TooLong(path, max_length) THEN <<>>
    ELSE IF current = target THEN <<path>>
    ELSE DfsNeighbors(graph, graph.nbrs[current], target, path, max_length)

\* lines 192-198: the loop over the neighbours still to visit
DfsNeighbors(graph, todo, target, path, max_length) ==
    IF todo = <<>> THEN <<>>
    ELSE (IF Unvisited(Head(todo), path)
          THEN dfs(graph, Head(todo), target, Append(path, Head(todo)), max_length)
          ELSE <<>>)
         \o DfsNeighbors(graph, Tail(todo), target, path, max_length)

\* a variant without the shortcut for start = end
find_all_paths_NoShortcut(graph, start, end, max_length) ==
    IF start \notin DOMAIN graph.nbrs \/ end \notin DOMAIN graph.nbrs THEN <<>>
    ELSE dfs(graph, start, end, <<start>>, max_length)

\* find_all_paths
find_all_paths(graph, start, end, max_length) ==
    IF start \notin DOMAIN graph.nbrs \/ end \notin DOMAIN graph.nbrs THEN <<>>
    ELSE IF start = end THEN << <<start>> >>
    ELSE dfs(graph, start, end, <<start>>, max_length)

\* the score of one edge, in tenths: 10 per side joined on its recommended
\* key is 100, 0.1 x uniqueness is uniqueness
EdgeQuality(edge) ==
    (IF edge.key1 = edge.pk1 THEN 100 ELSE 0) + (IF edge.key2 = edge.pk2 THEN 100 ELSE 0)
    + edge.uniqueness1 + edge.uniqueness2

RECURSIVE calculate_path_quality(_, _)
\* calculate_path_quality, in tenths
calculate_path_quality(graph, path) ==
    IF Len(path) < 2 THEN 0
    ELSE calculate_path_quality(graph, SubSeq(path, 1, Len(path) - 1))
         + EdgeQuality(graph.edge[<<path[Len(path) - 1], path[Len(path)]>>])

\* a variant of the sort key that looks at the length only
KeyBefore_LengthOnly(graph, p, q) == Len(p) < Len(q)

\* line 69: the key (len(p), -quality(p)) is smaller than the key of q
KeyBefore(graph, p, q) ==
    \/ Len(p) < Len(q)
    \/ /\ Len(p) = Len(q)
       /\ -calculate_path_quality(graph, p) < -calculate_path_quality(graph, q)

\* p is entered into a sorted list behind every path whose key is not larger
Insert(graph, s, p) ==
    LET later == {i \in 1..Len(s) : KeyBefore(graph, p, s[i])}
    IN IF later = {} THEN Append(s, p)
       ELSE LET k == CHOOSE i \in later : \A j \in later : i <= j
            IN SubSeq(s, 1, k - 1) \o <<p>> \o SubSeq(s, k, Len(s))

RECURSIVE sorted(_, _)
\* sorted(paths, key=...): a stable sort
sorted(graph, paths) ==
    IF paths = <<>> THEN <<>>
    ELSE Insert(graph, sorted(graph, SubSeq(paths, 1, Len(paths) - 1)), paths[Len(paths)])

\* max_length of the call in find_join_path
JoinPathMaxLength == 4

\* paths[:3] is handed to format_join_path_result
ShownPaths == 3

\* at most this many alternatives are shown
MaxAlternatives == 2

\* what loading the two files can do
LoadOutcomes == {"ok", "join_keys_error", "pk_candidates_error"}

\* sample_data: None without conn_info, else what execute_join_sample returns
SampleOutcomes == {None, "sample_rows", "zero_rows", "could_not_execute"}

NoPath == <<>>

JoinPathResult(kind, best_path, quality, alternatives, sample_data) ==
    [kind |-> kind, best_path |-> best_path, quality |-> quality,
     alternatives |-> alternatives, sample_data |-> sample_data]

\* format_join_path_result: the parts of the text
format_join_path_result(best_path, graph, sample_data, alternative_paths) ==
    JoinPathResult(IF Len(best_path) = 2 THEN "direct" ELSE "multi_hop",
                   best_path,
                   calculate_path_quality(graph, best_path),
                   [i \in 1..Min(MaxAlternatives, Len(alternative_paths) - 1) |->
                       [path |-> alternative_paths[i + 1],
                        quality |-> calculate_path_quality(graph, alternative_paths[i + 1])]],
                   sample_data)

\* find_join_path; table1 and table2 are given in upper case
find_join_path(table1, table2, join_keys, pk_candidates, load, sample) ==
    IF load # "ok" THEN JoinPathResult(load, NoPath, 0, <<>>, None)
    ELSE LET graph == build_enhanced_graph(join_keys, pk_candidates)
             found == find_all_paths(graph, table1, table2, JoinPathMaxLength)
             paths == sorted(graph, found)
         IN IF paths = <<>> THEN JoinPathResult("no_path", NoPath, 0, <<>>, None)
            ELSE format_join_path_result(paths[1], graph, sample,
                                         SubSeq(paths, 1, Min(ShownPaths, Len(paths))))

\* ------------------------------------------------------------------------
\* State
\* ------------------------------------------------------------------------
VARIABLES
    caller,          \* who calls generate: "process_item" (main.py) or "direct"
    cfg,             \* the OpenAIModel configuration
    item,            \* the item argument of generate (NoItem = None)
    max_iterations,  \* the max_iterations argument of generate
    pc,              \* position in generate / process_item
    brk,             \* the break statement that ended the refinement loop
    iteration,       \* tool phase: calls made so far (loop variable + 1)
    tool_idx,        \* index of the tool call being executed
    note_iter,       \* note loop variable
    refine_iter,     \* refine loop variable
    messages,        \* the chat history sent to the generation collaborator
    tool_call_log,   \* generate's tool_call_log
    response,        \* generate's response variable
    sql,             \* generate's sql variable (a candidate, NoSql = None)
    exec_result,     \* the last result of _execute_sql
    llm_feedback,    \* the last result of _get_llm_feedback
    hints_parsed,    \* ParsingNoteTaker.hints_parsed
    iter_notes,      \* ParsingNoteTaker.iter_notes
    lookup_results,  \* ParsingNoteTaker.lookup_results
    returned,        \* what generate returned
    all_results,     \* main's result collection
    exec_log,        \* the candidates the data store was sent, in order
    gen_log,         \* the generation calls made, in order (by phase)
    jp_join_keys,    \* join path finder: the records of the join keys file
    jp_pk_candidates, \* join path finder: the PK candidates file
    jp_table1,       \* join path finder: start table
    jp_table2,       \* join path finder: end table
    jp_max_length,   \* max_length of the last find_all_paths call
    jp_graph,        \* the graph built by build_enhanced_graph
    jp_paths,        \* the paths returned by the last find_all_paths call
    jp_result,       \* what find_join_path returned
    jp_pc,           \* position of the caller of the join path finder
    ij_pc,           \* inspect_join: position
    ij_conn,         \* inspect_join: the connection ("none", "open", "closed")
    ij_table1_count, \* inspect_join: table1_count
    ij_table2_count, \* inspect_join: table2_count
    ij_distinct_key1, \* inspect_join: distinct_key1
    ij_distinct_key2, \* inspect_join: distinct_key2
    ij_error_message, \* inspect_join: error_message of a column error
    ij_join_count,   \* inspect_join: join_count
    ij_result,       \* inspect_join: the JoinInspectionResult returned
    ij_raised,       \* inspect_join: an exception left the method
    tool_pc,         \* a tool or execution invocation: "called", "returned"
    invocation,      \* the invocation: the function called and its arguments
    tool_result,     \* what the invocation returned
    open_connections, \* connections that the returned invocation left open
    join_analysis_results, \* ParsingNoteTaker.join_analysis_results
    parse_log,       \* the parse_sql calls made on the note taker, with results
    dataset,         \* main: the question text of every dataset item
    task_pc,         \* per submitted item: position of its process_item task
    task_log,        \* per submitted item: tool_call_log of its generate call
    task_messages,   \* per submitted item: messages of its generate call
    batch_pc,        \* main: position after the submission of the tasks
    batch_results,   \* main: all_results of the batch
    predictions      \* main: the list written to predictions.json

loopVars ==
    <<caller, cfg, item, max_iterations, pc, brk, iteration, tool_idx, note_iter,
      refine_iter, messages, tool_call_log, response, sql, exec_result, llm_feedback,
      hints_parsed, iter_notes, lookup_results, returned, all_results, exec_log,
      gen_log>>

pathVars ==
    <<jp_join_keys, jp_pk_candidates, jp_table1, jp_table2, jp_max_length, jp_graph,
      jp_paths, jp_result, jp_pc>>

inspectVars ==
    <<ij_pc, ij_conn, ij_table1_count, ij_table2_count, ij_distinct_key1,
      ij_distinct_key2, ij_error_message, ij_join_count, ij_result, ij_raised>>

toolVars == <<tool_pc, invocation, tool_result, open_connections>>

noteVars == <<join_analysis_results, parse_log>>

batchVars ==
    <<dataset, task_pc, task_log, task_messages, batch_pc, batch_results, predictions>>

\* the state that generate and process_item leave alone
outsideLoop == <<pathVars, inspectVars, toolVars, noteVars, batchVars>>

\* the state that the join path finder leaves alone
outsidePath == <<loopVars, inspectVars, toolVars, noteVars, batchVars>>

\* the state that inspect_join leaves alone
outsideInspect == <<loopVars, pathVars, toolVars, noteVars, batchVars>>

\* the state that a single tool or execution invocation leaves alone
outsideTools == <<loopVars, pathVars, inspectVars, noteVars, batchVars>>

\* the state that the batch runner leaves alone
outsideBatch == <<loopVars, pathVars, inspectVars, toolVars, noteVars>>

\* the state that the operations of a note taker leave alone
outsideNotes ==
    <<caller, cfg, max_iterations, brk, iteration, tool_idx, note_iter, refine_iter,
      messages, tool_call_log, response, sql, exec_result, llm_feedback, returned,
      all_results, exec_log, gen_log, pathVars, inspectVars, toolVars, batchVars>>

NoExec == [success |-> FALSE, row_count |-> 0, error |-> None, error_type |-> None,
           results |-> 0]

NoHints == [columns |-> {}, tables |-> {}, joins |-> <<>>]

Pending == [kind |-> "pending", response |-> Unbound, tool_call_log |-> <<>>]

\* local_note_taker is not None
NoteTakerExists == cfg.note_taking /\ item.given

Configs ==
    [note_taking : BOOLEAN, llm_feedback : BOOLEAN, syntax_fixer : BOOLEAN,
     empty_handler : BOOLEAN, max_refine : 0..MaxRefine, use_tools : BOOLEAN]

\* the configurations and arguments explored: flags that the chosen path never
\* reads are held FALSE
LoopInputs ==
    {in \in [caller : {"process_item", "direct"}, cfg : Configs,
             item : Items \cup {NoItem}, max_iterations : 0..MaxToolIter] :
        /\ in.caller = "process_item" => ~in.item.given
        /\ in.caller = "direct" => in.item.given
        /\ (in.cfg.note_taking /\ in.item.given)
              => ~in.cfg.syntax_fixer /\ ~in.cfg.empty_handler
        /\ ~(in.cfg.note_taking /\ in.item.given) => ~in.cfg.llm_feedback
        \* without tools every response is final: max_iterations > 1 acts as 1
        /\ ~in.cfg.use_tools => in.max_iterations <= 1
        \* the critique and the longer refinements are explored on the runs
        \* without a tool phase
        /\ in.cfg.use_tools => ~in.cfg.llm_feedback /\ in.cfg.max_refine <= 1}

\* the join path finder is not in use
PathIdle ==
    /\ jp_join_keys = <<>>
    /\ jp_pk_candidates = <<>>
    /\ jp_table1 = None
    /\ jp_table2 = None
    /\ jp_max_length = 0
    /\ jp_graph = EmptyGraph
    /\ jp_paths = <<>>
    /\ jp_result = None
    /\ jp_pc = "idle"

\* inspect_join is not in use
InspectIdle ==
    /\ ij_pc = "idle"
    /\ ij_conn = "none"
    /\ ij_table1_count = 0
    /\ ij_table2_count = 0
    /\ ij_distinct_key1 = 0
    /\ ij_distinct_key2 = 0
    /\ ij_error_message = None
    /\ ij_join_count = 0
    /\ ij_result = None
    /\ ij_raised = FALSE

\* no tool or execution invocation has been made
ToolIdle ==
    /\ tool_pc = "idle"
    /\ invocation = [op |-> "none"]
    /\ tool_result = None
    /\ open_connections = 0

\* no operation was called on a note taker outside generate
NoteIdle ==
    /\ join_analysis_results = <<>>
    /\ parse_log = <<>>

\* no batch is running
BatchIdle ==
    /\ dataset = <<>>
    /\ task_pc = <<>>
    /\ task_log = <<>>
    /\ task_messages = <<>>
    /\ batch_pc = "idle"
    /\ batch_results = <<>>
    /\ predictions = <<>>

\* generate is entered with the arguments and configuration in, at position p
LoopStart(in, p) ==
    /\ caller = in.caller
    /\ cfg = in.cfg
    /\ item = in.item
    /\ max_iterations = in.max_iterations
    /\ pc = p
    /\ brk = "none"
    /\ iteration = 0
    /\ tool_idx = 0
    /\ note_iter = 0
    /\ refine_iter = 0
    /\ messages = <<>>
    /\ tool_call_log = <<>>
    /\ response = Unbound
    /\ sql = NoSql
    /\ exec_result = NoExec
    /\ llm_feedback = None
    /\ hints_parsed = NoHints
    /\ iter_notes = <<>>
    /\ lookup_results = <<>>
    /\ returned = Pending
    /\ all_results = <<>>
    /\ exec_log = <<>>
    /\ gen_log = <<>>

\* generate is not in use
LoopIdle ==
    LoopStart([caller |-> "none",
               cfg |-> [note_taking |-> FALSE, llm_feedback |-> FALSE,
                        syntax_fixer |-> FALSE, empty_handler |-> FALSE,
                        max_refine |-> 0, use_tools |-> FALSE],
               item |-> NoItem, max_iterations |-> 0], "idle")

LoopInit ==
    /\ \E in \in LoopInputs : LoopStart(in, "start")
    /\ PathIdle
    /\ InspectIdle
    /\ ToolIdle
    /\ NoteIdle
    /\ BatchIdle

\* ------------------------------------------------------------------------
\* ParsingNoteTaker operations on the trace
\* ------------------------------------------------------------------------
\* ParsingNoteTaker.add_iter_note: the record appended
IterNote(iter_num, s, result, feedback) ==
    [iter |-> iter_num, sql |-> s,
     schema_check |-> generate_schema_check(hints_parsed, SqlText(s)),
     refine_feedback |-> generate_refine_feedback(result),
     llm_feedback |-> feedback,
     rule_review |-> None]

\* a variant that keeps one record and overwrites it each round
add_iter_note_Overwrite(notes, iter_num, s, result, feedback) ==
    <<IterNote(iter_num, s, result, feedback)>>

add_iter_note(notes, iter_num, s, result, feedback) ==
    Append(notes, IterNote(iter_num, s, result, feedback))

\* a variant that does not look at the schema check
has_issues_IgnoreSchema(notes) ==
    IF notes = <<>> THEN FALSE
    ELSE notes[Len(notes)].refine_feedback.mark \in {"err", "warn"}

\* ParsingNoteTaker.has_issues
has_issues(notes) ==
    IF notes = <<>> THEN FALSE
    ELSE LET last_note == notes[Len(notes)] IN
         \/ HasUnchecked(last_note.schema_check)
         \/ last_note.refine_feedback.mark \in {"err", "warn"}

\* ParsingNoteTaker.get_issues_summary: the lines of the summary
get_issues_summary(notes) ==
    IF notes = <<>> THEN [lines |-> {}, refine |-> NoFeedback]
    ELSE LET last_note == notes[Len(notes)] IN
         [lines |-> {l \in last_note.schema_check.lines : l.mark = "unchecked"},
          refine |-> IF last_note.refine_feedback.mark \in {"err", "warn"}
                     THEN last_note.refine_feedback ELSE NoFeedback]

\* ParsingNoteTaker.get_current_note
get_current_note(notes, lookups) ==
    [empty |-> notes = <<>> /\ lookups = <<>>, lookups |-> lookups, iters |-> notes]

\* ParsingNoteTaker.get_final_note
get_final_note(notes, lookups) ==
    [empty |-> notes = <<>> /\ lookups = <<>>, lookups |-> lookups, iters |-> notes]


\* ------------------------------------------------------------------------
\* OpenAIModel.generate
\* ------------------------------------------------------------------------
LogEntry(i, type, data) == [iteration |-> i, type |-> type, data |-> data]

NoneReturned == [kind |-> "None", response |-> Unbound, tool_call_log |-> <<>>]

\* ResponseWrapper(response, tool_call_log)
Wrapper(r, log) == [kind |-> "wrapper", response |-> r, tool_call_log |-> log]

\* except Exception: return None
RaiseInGenerate ==
    /\ pc' = "returned"
    /\ returned' = NoneReturned

\* lines 342-438: note taker and messages are set up
GenerateStart ==
    /\ pc = "start"
    /\ hints_parsed' = IF NoteTakerExists THEN parse_hints(item) ELSE NoHints
    /\ messages' = <<[role |-> "system", body |-> [kind |-> "system"]],
                     [role |-> "user", body |-> [kind |-> "prompt"]]>>
    /\ pc' = "loop"
    /\ UNCHANGED <<caller, cfg, item, max_iterations, brk, iteration, tool_idx,
                   note_iter, refine_iter, tool_call_log, response, sql, exec_result,
                   llm_feedback, iter_notes, lookup_results, returned, all_results,
                   exec_log, gen_log>>

\* lines 441-458 and 721-725: the generation call of the tool phase raises
ToolPhaseCallFails ==
    /\ pc = "loop"
    /\ iteration < max_iterations
    /\ gen_log' = Append(gen_log, "tool_phase")
    /\ RaiseInGenerate
    /\ UNCHANGED <<caller, cfg, item, max_iterations, brk, iteration, tool_idx,
                   note_iter, refine_iter, messages, tool_call_log, response, sql,
                   exec_result, llm_feedback, hints_parsed, iter_notes, lookup_results,
                   all_results, exec_log>>

\* lines 441-480, 580-582, 661: a response without tool calls is the final answer
ToolPhaseFinal(r) ==
    /\ pc = "loop"
    /\ iteration < max_iterations
    /\ r # ApiError /\ r.tool_calls = <<>>
    /\ gen_log' = Append(gen_log, "tool_phase")
    /\ response' = r
    /\ tool_call_log' =
          Append(tool_call_log, LogEntry(iteration + 1, "final_response", r.content))
    /\ sql' = extract_sql(r.content)
    /\ IF NoteTakerExists /\ sql' # NoSql
       THEN pc' = "note_round" /\ note_iter' = 1
       ELSE /\ note_iter' = note_iter
            /\ pc' = IF sql' # NoSql /\ (cfg.syntax_fixer \/ cfg.empty_handler)
                     THEN "refine_round" ELSE "return"
    /\ UNCHANGED <<caller, cfg, item, max_iterations, brk, iteration, tool_idx,
                   refine_iter, messages, exec_result, llm_feedback, hints_parsed,
                   iter_notes, lookup_results, returned, all_results, exec_log>>

\* lines 441-458, 663-666: a response with tool calls
ToolPhaseTools(r) ==
    /\ pc = "loop"
    /\ iteration < max_iterations
    /\ r # ApiError /\ r.tool_calls # <<>>
    /\ gen_log' = Append(gen_log, "tool_phase")
    /\ response' = r
    /\ messages' = Append(messages, [role |-> "assistant",
                                     body |-> [kind |-> "response", response |-> r]])
    /\ tool_idx' = 1
    /\ pc' = "tools"
    /\ UNCHANGED <<caller, cfg, item, max_iterations, brk, iteration, note_iter,
                   refine_iter, tool_call_log, sql, exec_result, llm_feedback,
                   hints_parsed, iter_notes, lookup_results, returned, all_results,
                   exec_log>>

\* what executing a tool call can give: the lookup finds the value or not;
\* "raise" = json.loads or the tool raised
ToolOutcomes(name) ==
    IF name = "lookup_column_values" THEN {"found", "not_found", "raise"}
    ELSE {"text", "raise"}

\* lines 666-703: one tool call of the response is executed
ToolCall(outcome) ==
    /\ pc = "tools"
    /\ outcome \in ToolOutcomes(response.tool_calls[tool_idx])
    /\ LET name == response.tool_calls[tool_idx] IN
       IF outcome = "raise"
       THEN /\ RaiseInGenerate
            /\ UNCHANGED <<iteration, tool_idx, messages, tool_call_log, lookup_results>>
       ELSE /\ tool_call_log' =
                  tool_call_log \o <<LogEntry(iteration + 1, "tool_call", name),
                                     LogEntry(iteration + 1, "tool_response", outcome)>>
            /\ lookup_results' =
                  IF name = "lookup_column_values" /\ NoteTakerExists
                  THEN Append(lookup_results, [found |-> outcome = "found"])
                  ELSE lookup_results
            /\ messages' = Append(messages, [role |-> "tool",
                               body |-> [kind |-> "tool", name |-> name,
                                         content |-> outcome]])
            /\ IF tool_idx < Len(response.tool_calls)
               THEN tool_idx' = tool_idx + 1 /\ pc' = "tools" /\ iteration' = iteration
               ELSE tool_idx' = 0 /\ pc' = "loop" /\ iteration' = iteration + 1
            /\ returned' = returned
    /\ UNCHANGED <<caller, cfg, item, max_iterations, brk, note_iter, refine_iter,
                   response, sql, exec_result, llm_feedback, hints_parsed, iter_notes,
                   all_results, exec_log, gen_log>>

\* lines 441, 705-725: the tool phase used up max_iterations; with max_iterations
\* = 0 response is unbound and the NameError is caught
ToolPhaseExhausted ==
    /\ pc = "loop"
    /\ iteration >= max_iterations
    /\ pc' = "returned"
    /\ returned' = IF response = Unbound THEN NoneReturned
                   ELSE Wrapper(response, tool_call_log)
    /\ UNCHANGED <<caller, cfg, item, max_iterations, brk, iteration, tool_idx,
                   note_iter, refine_iter, messages, tool_call_log, response, sql,
                   exec_result, llm_feedback, hints_parsed, iter_notes, lookup_results,
                   all_results, exec_log, gen_log>>


\* --- the note-taking loop (lines 474-577) --------------------------------
max_note_iterations == cfg.max_refine + 1

\* lines 482-506: one round executes the candidate, asks for the critique,
\* appends the round's record and logs it
NoteRound(beh, reply) ==
    /\ pc = "note_round"
    /\ exec_result' = execute_sql(beh)
    /\ exec_log' = Append(exec_log, sql)
    /\ llm_feedback' = IF cfg.llm_feedback /\ item.given
                       THEN get_llm_feedback(sql, item, reply) ELSE None
    /\ iter_notes' = add_iter_note(iter_notes, note_iter, sql, exec_result', llm_feedback')
    /\ tool_call_log' =
          Append(tool_call_log,
                 LogEntry(note_iter, "note_taking_iter",
                          [sql |-> sql, success |-> exec_result'.success,
                           row_count |-> exec_result'.row_count,
                           error_type |-> exec_result'.error_type,
                           llm_feedback |-> llm_feedback']))
    /\ pc' = "note_decide"
    /\ UNCHANGED <<caller, cfg, item, max_iterations, brk, iteration, tool_idx,
                   note_iter, refine_iter, messages, response, sql, hints_parsed,
                   lookup_results, returned, all_results, gen_log>>

\* a variant of the condition that ignores the critique
StopCondition_IgnoreCritique ==
    /\ exec_result.success
    /\ exec_result.row_count > 0
    /\ ~has_issues(iter_notes)

\* lines 509-510: the condition of the first break
StopCondition ==
    /\ exec_result.success
    /\ exec_result.row_count > 0
    /\ ~has_issues(iter_notes)
    /\ llm_feedback = None

\* lines 510-511
NoteStopSatisfied ==
    /\ pc = "note_decide"
    /\ StopCondition
    /\ brk' = "satisfied"
    /\ pc' = "note_final"
    /\ UNCHANGED <<caller, cfg, item, max_iterations, iteration, tool_idx, note_iter,
                   refine_iter, messages, tool_call_log, response, sql, exec_result,
                   llm_feedback, hints_parsed, iter_notes, lookup_results, returned,
                   all_results, exec_log, gen_log>>

\* a variant without the second break
LastIter_Never == FALSE

\* a variant of the second break that is off by one
LastIter_OffByOne == note_iter > max_note_iterations

\* line 514: the condition of the second break
LastIter == note_iter >= max_note_iterations

\* lines 514-515
NoteStopLastIter ==
    /\ pc = "note_decide"
    /\ ~StopCondition
    /\ LastIter
    /\ brk' = "last_iter"
    /\ pc' = "note_final"
    /\ UNCHANGED <<caller, cfg, item, max_iterations, iteration, tool_idx, note_iter,
                   refine_iter, messages, tool_call_log, response, sql, exec_result,
                   llm_feedback, hints_parsed, iter_notes, lookup_results, returned,
                   all_results, exec_log, gen_log>>

\* lines 517-546: the refine prompt; the critique is added when it is truthy
NoteRefinePrompt ==
    [kind |-> "note_refine",
     note |-> get_current_note(iter_notes, lookup_results),
     issues |-> get_issues_summary(iter_notes),
     llm_review |-> IF llm_feedback \notin {None, ""} THEN llm_feedback ELSE None,
     sql |-> sql]

NoteRequestRefine ==
    /\ pc = "note_decide"
    /\ ~StopCondition
    /\ ~LastIter
    /\ messages' = messages \o
          <<[role |-> "assistant", body |-> [kind |-> "response", response |-> response]],
            [role |-> "user", body |-> NoteRefinePrompt]>>
    /\ pc' = "note_regen"
    /\ UNCHANGED <<caller, cfg, item, max_iterations, brk, iteration, tool_idx,
                   note_iter, refine_iter, tool_call_log, response, sql, exec_result,
                   llm_feedback, hints_parsed, iter_notes, lookup_results, returned,
                   all_results, exec_log, gen_log>>

\* lines 480, 548-570: the regeneration call and the extraction of the new SQL;
\* the for loop then takes the next value of its range, if any
NoteRegen(r) ==
    /\ pc = "note_regen"
    /\ gen_log' = Append(gen_log, "note_regen")
    /\ IF r = ApiError
       THEN /\ RaiseInGenerate
            /\ UNCHANGED <<brk, note_iter, response, sql>>
       ELSE /\ response' = r
            /\ returned' = returned
            /\ IF extract_sql(r.content) # NoSql
               THEN /\ sql' = extract_sql(r.content)
                    /\ IF note_iter + 1 <= max_note_iterations
                       THEN /\ note_iter' = note_iter + 1
                            /\ pc' = "note_round"
                            /\ brk' = brk
                       ELSE /\ note_iter' = note_iter
                            /\ pc' = "note_final"
                            /\ brk' = "loop_end"
               ELSE /\ brk' = "no_sql"
                    /\ pc' = "note_final"
                    /\ UNCHANGED <<sql, note_iter>>
    /\ UNCHANGED <<caller, cfg, item, max_iterations, iteration, tool_idx, refine_iter,
                   messages, tool_call_log, exec_result, llm_feedback, hints_parsed,
                   iter_notes, lookup_results, all_results, exec_log>>

\* lines 572-577, 661
NoteFinal ==
    /\ pc = "note_final"
    /\ tool_call_log' =
          Append(tool_call_log,
                 LogEntry(0, "note_taking_final",
                          get_final_note(iter_notes, lookup_results)))
    /\ pc' = "return"
    /\ UNCHANGED <<caller, cfg, item, max_iterations, brk, iteration, tool_idx,
                   note_iter, refine_iter, messages, response, sql, exec_result,
                   llm_feedback, hints_parsed, iter_notes, lookup_results, returned,
                   all_results, exec_log, gen_log>>

\* --- the refine loop without note-taking (lines 580-659) -----------------
\* a variant that gives advice on every failed or empty outcome
run_refine_agent_AnyOutcome(result) ==
    IF result.error_type = None THEN None ELSE "syntax_fix_advice"

\* OpenAIModel._run_refine_agent: the feedback, None when no agent applies
run_refine_agent(result) ==
    IF result.error_type = "syntax_error" /\ cfg.syntax_fixer THEN "syntax_fix_advice"
    ELSE IF result.error_type = "empty_result" /\ cfg.empty_handler
    THEN "empty_result_advice"
    ELSE None

\* lines 582-629: one round up to the regeneration call
RefineRound(beh) ==
    /\ pc = "refine_round"
    /\ refine_iter < cfg.max_refine
    /\ exec_result' = execute_sql(beh)
    /\ exec_log' = Append(exec_log, sql)
    /\ IF exec_result'.success /\ exec_result'.row_count > 0
       THEN /\ tool_call_log' =
                  Append(tool_call_log, LogEntry(refine_iter + 1, "refine_trigger", "success"))
            /\ brk' = "success"
            /\ pc' = "return"
            /\ messages' = messages
       ELSE IF run_refine_agent(exec_result') = None
       THEN /\ brk' = "no_feedback"
            /\ pc' = "return"
            /\ UNCHANGED <<tool_call_log, messages>>
       ELSE /\ tool_call_log' =
                  Append(tool_call_log,
                         LogEntry(refine_iter + 1, "refine_trigger", exec_result'.error_type))
            /\ messages' = messages \o
                  <<[role |-> "assistant",
                     body |-> [kind |-> "response", response |-> response]],
                    [role |-> "user",
                     body |-> [kind |-> "refine",
                               feedback |-> run_refine_agent(exec_result'), sql |-> sql]]>>
            /\ pc' = "refine_regen"
            /\ brk' = brk
    /\ UNCHANGED <<caller, cfg, item, max_iterations, iteration, tool_idx, note_iter,
                   refine_iter, response, sql, llm_feedback, hints_parsed, iter_notes,
                   lookup_results, returned, all_results, gen_log>>

\* line 582: range(max_refine_iterations) is used up
RefineLoopEnd ==
    /\ pc = "refine_round"
    /\ refine_iter >= cfg.max_refine
    /\ brk' = "loop_end"
    /\ pc' = "return"
    /\ UNCHANGED <<caller, cfg, item, max_iterations, iteration, tool_idx, note_iter,
                   refine_iter, messages, tool_call_log, response, sql, exec_result,
                   llm_feedback, hints_parsed, iter_notes, lookup_results, returned,
                   all_results, exec_log, gen_log>>

\* lines 631-659: the regeneration call and the extraction of the new SQL
RefineRegen(r) ==
    /\ pc = "refine_regen"
    /\ gen_log' = Append(gen_log, "refine_regen")
    /\ IF r = ApiError
       THEN /\ RaiseInGenerate
            /\ UNCHANGED <<brk, refine_iter, response, sql, tool_call_log>>
       ELSE /\ response' = r
            /\ returned' = returned
            /\ IF extract_sql(r.content) # NoSql
               THEN /\ sql' = extract_sql(r.content)
                    /\ tool_call_log' =
                          Append(tool_call_log,
                                 LogEntry(refine_iter + 1, "final_response", r.content))
                    /\ refine_iter' = refine_iter + 1
                    /\ pc' = "refine_round"
                    /\ brk' = brk
               ELSE /\ brk' = "no_sql"
                    /\ pc' = "return"
                    /\ UNCHANGED <<sql, refine_iter, tool_call_log>>
    /\ UNCHANGED <<caller, cfg, item, max_iterations, iteration, tool_idx, note_iter,
                   messages, exec_result, llm_feedback, hints_parsed, iter_notes,
                   lookup_results, all_results, exec_log>>

\* lines 705-719
Return ==
    /\ pc = "return"
    /\ returned' = Wrapper(response, tool_call_log)
    /\ pc' = "returned"
    /\ UNCHANGED <<caller, cfg, item, max_iterations, brk, iteration, tool_idx,
                   note_iter, refine_iter, messages, tool_call_log, response, sql,
                   exec_result, llm_feedback, hints_parsed, iter_notes, lookup_results,
                   all_results, exec_log, gen_log>>

\* ------------------------------------------------------------------------
\* main.process_item and the result collection
\* ------------------------------------------------------------------------
\* lines 106-126: predicted_sql from the returned response
predicted_sql(ret) ==
    IF ret.kind = "None"
    THEN [kind |-> "error_api", content |-> NullContent]
    ELSE IF ret.response.content.kind = "null"
    THEN [kind |-> IF ret.tool_call_log # <<>> THEN "error_max_iterations"
                   ELSE "error_empty_content",
          content |-> NullContent]
    ELSE [kind |-> "text", content |-> ret.response.content]

\* lines 135-145 and 340-341: the result is built and collected
ProcessItem ==
    /\ pc = "returned"
    /\ caller = "process_item"
    /\ all_results' = Append(all_results,
                             [question |-> 1, predicted_sql |-> predicted_sql(returned)])
    /\ pc' = "done"
    /\ UNCHANGED <<caller, cfg, item, max_iterations, brk, iteration, tool_idx,
                   note_iter, refine_iter, messages, tool_call_log, response, sql,
                   exec_result, llm_feedback, hints_parsed, iter_notes, lookup_results,
                   returned, exec_log, gen_log>>

vars == <<loopVars, pathVars, inspectVars, toolVars, noteVars, batchVars>>

LoopNext ==
    \/ GenerateStart /\ UNCHANGED outsideLoop
    \/ ToolPhaseCallFails /\ UNCHANGED outsideLoop
    \/ \E r \in ApiOutcomes(cfg.use_tools) : ToolPhaseFinal(r) /\ UNCHANGED outsideLoop
    \/ \E r \in ApiOutcomes(cfg.use_tools) : ToolPhaseTools(r) /\ UNCHANGED outsideLoop
    \/ \E o \in {"found", "not_found", "text", "raise"} : ToolCall(o) /\ UNCHANGED outsideLoop
    \/ ToolPhaseExhausted /\ UNCHANGED outsideLoop
    \/ \E beh \in NoteDbBehaviours :
          \E reply \in (IF cfg.llm_feedback THEN CritiqueReplies ELSE {"OK"}) :
             NoteRound(beh, reply) /\ UNCHANGED outsideLoop
    \/ NoteStopSatisfied /\ UNCHANGED outsideLoop
    \/ NoteStopLastIter /\ UNCHANGED outsideLoop
    \/ NoteRequestRefine /\ UNCHANGED outsideLoop
    \/ \E r \in ApiOutcomes(cfg.use_tools) : NoteRegen(r) /\ UNCHANGED outsideLoop
    \/ NoteFinal /\ UNCHANGED outsideLoop
    \/ \E beh \in LoopDbBehaviours : RefineRound(beh) /\ UNCHANGED outsideLoop
    \/ RefineLoopEnd /\ UNCHANGED outsideLoop
    \/ \E r \in ApiOutcomes(cfg.use_tools) : RefineRegen(r) /\ UNCHANGED outsideLoop
    \/ Return /\ UNCHANGED outsideLoop
    \/ ProcessItem /\ UNCHANGED outsideLoop

Spec == LoopInit /\ [][LoopNext]_vars

\* ------------------------------------------------------------------------
\* Calls of the join path finder
\* ------------------------------------------------------------------------
\* at most this many relationship records in the join keys file
MaxRecords == 5

\* find_all_paths is called with max_length in 0..MaxHops
MaxHops == 4

PathTables == {"A", "B", "C", "D"}

\* the relationship records a join keys file is made of
Records ==
    {Rel("list", "A", "id", "B", "a_id"), Rel("list", "B", "id", "D", "b_id"),
     Rel("list", "A", "id", "C", "a_id"), Rel("list", "C", "id", "D", "c_id"),
     Rel("dict", "B", "code", "A", "code"), Rel("list", "B", "id", "C", "b_id"),
     Rel("list", "A", "id", "A", "parent_id")}

\* join keys files: lists of distinct records
JoinKeyLists ==
    {l \in UNION {[1..n -> Records] : n \in 0..MaxRecords} :
        \A i, j \in 1..Len(l) : i # j => l[i] # l[j]}

\* PK candidates files: pk_candidates.get(t, {}) for every table
PkFiles ==
    {[t \in PathTables |-> NoPkInfo],
     [t \in PathTables |->
        CASE t = "A" -> [recommended_pk |-> "id",
                         pk_candidates |-> <<[column |-> "id", uniqueness_percent |-> 100]>>]
          [] t = "B" -> [recommended_pk |-> "code",
                         pk_candidates |-> <<[column |-> "code", uniqueness_percent |-> 90],
                                             [column |-> "id", uniqueness_percent |-> 100]>>]
          [] t = "C" -> NoPkInfo
          [] OTHER -> [recommended_pk |-> "id", pk_candidates |-> <<>>]]}

PathInit ==
    /\ jp_join_keys \in JoinKeyLists
    /\ jp_pk_candidates \in PkFiles
    /\ jp_table1 = "A"
    /\ jp_table2 \in {"A", "C", "D"}
    /\ jp_max_length = 0
    /\ jp_graph = EmptyGraph
    /\ jp_paths = <<>>
    /\ jp_result = None
    /\ jp_pc = "input"
    /\ LoopIdle
    /\ InspectIdle
    /\ ToolIdle
    /\ NoteIdle
    /\ BatchIdle

\* build_enhanced_graph is called on the two files
BuildGraph ==
    /\ jp_pc = "input"
    /\ jp_graph' = build_enhanced_graph(jp_join_keys, jp_pk_candidates)
    /\ jp_pc' = "built"
    /\ UNCHANGED <<jp_join_keys, jp_pk_candidates, jp_table1, jp_table2, jp_max_length,
                   jp_paths, jp_result>>
    /\ UNCHANGED outsidePath

\* find_all_paths is called on the graph
FindAllPaths(max_length) ==
    /\ jp_pc = "built"
    /\ jp_max_length' = max_length
    /\ jp_paths' = find_all_paths(jp_graph, jp_table1, jp_table2, max_length)
    /\ jp_pc' = "found"
    /\ UNCHANGED <<jp_join_keys, jp_pk_candidates, jp_table1, jp_table2, jp_graph,
                   jp_result>>
    /\ UNCHANGED outsidePath

\* find_join_path is called on the two files; jp_graph and jp_paths keep its
\* locals graph and paths (before the sort)
FindJoinPath(load, sample) ==
    /\ jp_pc = "input"
    /\ jp_result' = find_join_path(jp_table1, jp_table2, jp_join_keys, jp_pk_candidates,
                                   load, sample)
    /\ IF load = "ok"
       THEN /\ jp_graph' = build_enhanced_graph(jp_join_keys, jp_pk_candidates)
            /\ jp_max_length' = JoinPathMaxLength
            /\ jp_paths' = find_all_paths(jp_graph', jp_table1, jp_table2, JoinPathMaxLength)
       ELSE UNCHANGED <<jp_graph, jp_max_length, jp_paths>>
    /\ jp_pc' = "reported"
    /\ UNCHANGED <<jp_join_keys, jp_pk_candidates, jp_table1, jp_table2>>
    /\ UNCHANGED outsidePath

PathNext ==
    \/ BuildGraph
    \/ \E max_length \in 0..MaxHops : FindAllPaths(max_length)
    \/ \E load \in LoadOutcomes : \E sample \in SampleOutcomes : FindJoinPath(load, sample)

PathSpec == PathInit /\ [][PathNext]_vars

\* ------------------------------------------------------------------------
\* JoinInspector.inspect_join (src/agent/join_inspector.py)
\* ------------------------------------------------------------------------
\* tables hold at most this many rows
MaxRows == 2

Max(x, y) == IF x >= y THEN x ELSE y

\* a query of the data store failed
Fail == -1

JoinInspectionResult(cardinality, table1_row_count, table2_row_count, join_result_count, warning_message) ==
    [table1_name |-> "T1", table2_name |-> "T2", join_key1 |-> "k1", join_key2 |-> "k2",
     cardinality |-> cardinality, table1_row_count |-> table1_row_count,
     table2_row_count |-> table2_row_count, join_result_count |-> join_result_count,
     warning_message |-> warning_message]

\* a variant of the classification that calls both mixed cases 1:N
JoinCardinality_MixedAlike(distinct_key1, table1_count, distinct_key2, table2_count) ==
    LET is_table1_unique == (distinct_key1 = table1_count)
        is_table2_unique == (distinct_key2 = table2_count)
    IN IF is_table1_unique /\ is_table2_unique THEN "1:1"
       ELSE IF is_table1_unique /\ ~is_table2_unique THEN "1:N"
       ELSE IF ~is_table1_unique /\ is_table2_unique THEN "1:N"
       ELSE "M:N"

\* a variant of the classification with the two mixed classes exchanged
JoinCardinality_Exchanged(distinct_key1, table1_count, distinct_key2, table2_count) ==
    LET is_table1_unique == (distinct_key1 = table1_count)
        is_table2_unique == (distinct_key2 = table2_count)
    IN IF is_table1_unique /\ is_table2_unique THEN "1:1"
       ELSE IF is_table1_unique /\ ~is_table2_unique THEN "N:1"
       ELSE IF ~is_table1_unique /\ is_table2_unique THEN "1:N"
       ELSE "M:N"

\* lines 215-226: the cardinality class
JoinCardinality(distinct_key1, table1_count, distinct_key2, table2_count) ==
    LET is_table1_unique == (distinct_key1 = table1_count)
        is_table2_unique == (distinct_key2 = table2_count)
    IN IF is_table1_unique /\ is_table2_unique THEN "1:1"
       ELSE IF is_table1_unique /\ ~is_table2_unique THEN "1:N"
       ELSE IF ~is_table1_unique /\ is_table2_unique THEN "N:1"
       ELSE "M:N"

\* a variant of the warning that does not look at the class
JoinWarning_AnyClass(cardinality, join_count, table1_count, table2_count) ==
    IF 2 * join_count > 3 * Max(table1_count, table2_count)
    THEN "data_multiplication"
    ELSE IF join_count = 0 THEN "no_matching_rows"
    ELSE None

\* lines 228-233: the warning; join_count > max(...) * 1.5 in whole numbers
JoinWarning(cardinality, join_count, table1_count, table2_count) ==
    IF cardinality = "M:N" /\ 2 * join_count > 3 * Max(table1_count, table2_count)
    THEN "data_multiplication"
    ELSE IF join_count = 0 THEN "no_matching_rows"
    ELSE None

\* lines 248-261: the catch-all of inspect_join
IjCatchAll ==
    /\ ij_result' = JoinInspectionResult("UNKNOWN", 0, 0, 0, "failed_to_inspect")
    /\ ij_pc' = "finally"

InspectInit ==
    /\ ij_pc = "start"
    /\ ij_conn = "none"
    /\ ij_table1_count = 0
    /\ ij_table2_count = 0
    /\ ij_distinct_key1 = 0
    /\ ij_distinct_key2 = 0
    /\ ij_error_message = None
    /\ ij_join_count = 0
    /\ ij_result = None
    /\ ij_raised = FALSE
    /\ LoopIdle
    /\ PathIdle
    /\ ToolIdle
    /\ NoteIdle
    /\ BatchIdle

\* lines 105-107: the connection and the cursor
IjConnect(ok) ==
    /\ ij_pc = "start"
    /\ IF ok THEN ij_conn' = "open" /\ ij_pc' = "count1" /\ ij_result' = ij_result
       ELSE ij_conn' = ij_conn /\ IjCatchAll
    /\ UNCHANGED <<ij_table1_count, ij_table2_count, ij_distinct_key1, ij_distinct_key2,
                   ij_error_message, ij_join_count, ij_raised>>
    /\ UNCHANGED outsideInspect

\* lines 110-111: the row count of table1
IjCount1(out) ==
    /\ ij_pc = "count1"
    /\ IF out = Fail THEN ij_table1_count' = ij_table1_count /\ IjCatchAll
       ELSE ij_table1_count' = out /\ ij_pc' = "count2" /\ ij_result' = ij_result
    /\ UNCHANGED <<ij_conn, ij_table2_count, ij_distinct_key1, ij_distinct_key2,
                   ij_error_message, ij_join_count, ij_raised>>
    /\ UNCHANGED outsideInspect

\* lines 113-114: the row count of table2
IjCount2(out) ==
    /\ ij_pc = "count2"
    /\ IF out = Fail THEN ij_table2_count' = ij_table2_count /\ IjCatchAll
       ELSE ij_table2_count' = out /\ ij_pc' = "distinct1" /\ ij_result' = ij_result
    /\ UNCHANGED <<ij_conn, ij_table1_count, ij_distinct_key1, ij_distinct_key2,
                   ij_error_message, ij_join_count, ij_raised>>
    /\ UNCHANGED outsideInspect

\* lines 120-125: the distinct keys of table1
IjDistinct1(out) ==
    /\ ij_pc = "distinct1"
    /\ out \in {Fail} \cup 0..ij_table1_count
    /\ IF out = Fail
       THEN /\ ij_error_message' = "column_key1_missing"
            /\ ij_pc' = "path_finder"
            /\ ij_distinct_key1' = ij_distinct_key1
       ELSE /\ ij_distinct_key1' = out
            /\ ij_pc' = "distinct2"
            /\ ij_error_message' = ij_error_message
    /\ UNCHANGED <<ij_conn, ij_table1_count, ij_table2_count, ij_distinct_key2,
                   ij_join_count, ij_result, ij_raised>>
    /\ UNCHANGED outsideInspect

\* lines 127-133: the distinct keys of table2
IjDistinct2(out) ==
    /\ ij_pc = "distinct2"
    /\ out \in {Fail} \cup 0..ij_table2_count
    /\ IF out = Fail
       THEN /\ ij_error_message' = "column_key2_missing"
            /\ ij_pc' = "path_finder"
            /\ ij_distinct_key2' = ij_distinct_key2
       ELSE /\ ij_distinct_key2' = out
            /\ ij_pc' = "join"
            /\ ij_error_message' = ij_error_message
    /\ UNCHANGED <<ij_conn, ij_table1_count, ij_table2_count, ij_distinct_key1,
                   ij_join_count, ij_result, ij_raised>>
    /\ UNCHANGED outsideInspect

\* lines 136-179: after a column error find_join_path is asked for the path
IjPathFinder(found) ==
    /\ ij_pc = "path_finder"
    /\ ij_result' =
          JoinInspectionResult("UNKNOWN", ij_table1_count, ij_table2_count, 0,
                               [error |-> ij_error_message,
                                path |-> IF found THEN "correct_path" ELSE None])
    /\ ij_pc' = "finally"
    /\ UNCHANGED <<ij_conn, ij_table1_count, ij_table2_count, ij_distinct_key1,
                   ij_distinct_key2, ij_error_message, ij_join_count, ij_raised>>
    /\ UNCHANGED outsideInspect

\* lines 181-246: the join queries, the class and the warning
IjJoin(out) ==
    /\ ij_pc = "join"
    /\ out \in {Fail} \cup 0..(ij_table1_count * ij_table2_count)
    /\ IF out = Fail
       THEN /\ ij_result' = JoinInspectionResult("UNKNOWN", ij_table1_count,
                                                 ij_table2_count, 0, "join_query_failed")
            /\ ij_join_count' = ij_join_count
       ELSE /\ ij_join_count' = out
            /\ LET cardinality == JoinCardinality(ij_distinct_key1, ij_table1_count,
                                                  ij_distinct_key2, ij_table2_count)
               IN ij_result' =
                     JoinInspectionResult(cardinality, ij_table1_count, ij_table2_count,
                                          out,
                                          JoinWarning(cardinality, out, ij_table1_count,
                                                      ij_table2_count))
    /\ ij_pc' = "finally"
    /\ UNCHANGED <<ij_conn, ij_table1_count, ij_table2_count, ij_distinct_key1,
                   ij_distinct_key2, ij_error_message, ij_raised>>
    /\ UNCHANGED outsideInspect

\* lines 263-265: the connection is closed; an exception of conn.close()
\* replaces the return value
IjFinally(close_ok) ==
    /\ ij_pc = "finally"
    /\ IF ij_conn = "open"
       THEN IF close_ok THEN ij_conn' = "closed" /\ UNCHANGED <<ij_result, ij_raised>>
            ELSE ij_conn' = ij_conn /\ ij_result' = None /\ ij_raised' = TRUE
       ELSE UNCHANGED <<ij_conn, ij_result, ij_raised>>
    /\ ij_pc' = "done"
    /\ UNCHANGED <<ij_table1_count, ij_table2_count, ij_distinct_key1, ij_distinct_key2,
                   ij_error_message, ij_join_count>>
    /\ UNCHANGED outsideInspect

InspectNext ==
    \/ \E ok \in BOOLEAN : IjConnect(ok)
    \/ \E out \in {Fail} \cup 0..MaxRows : IjCount1(out)
    \/ \E out \in {Fail} \cup 0..MaxRows : IjCount2(out)
    \/ \E out \in {Fail} \cup 0..MaxRows : IjDistinct1(out)
    \/ \E out \in {Fail} \cup 0..MaxRows : IjDistinct2(out)
    \/ \E found \in BOOLEAN : IjPathFinder(found)
    \/ \E out \in {Fail} \cup 0..(MaxRows * MaxRows) : IjJoin(out)
    \/ \E close_ok \in BOOLEAN : IjFinally(close_ok)

InspectSpec == InspectInit /\ [][InspectNext]_vars

\* ------------------------------------------------------------------------
\* lookup_column_values (src/tool_agent/column_value_lookup.py and its copy
\* src/agent/column_value_lookup.py, the one _execute_tool_call imports)
\* ------------------------------------------------------------------------
\* a text is the sequence of its characters
Jo == <<"j", "o">>
Sm == <<"s", "m">>
JoSm == <<"j", "o", " ", "s", "m">>
SmJo == <<"s", "m", " ", "j", "o">>
SmCommaJo == <<"s", "m", ",", "j", "o">>
SmX == <<"s", "m", "x">>

\* the values a column may store; <<>> is the empty string
StoredValues == {JoSm, SmCommaJo, Jo, SmX, <<>>}

\* a stored value occurs in at most this many rows
MaxCount == 2

\* the contents of a column: its distinct values with their row counts
Columns == UNION {[S -> 1..MaxCount] : S \in SUBSET StoredValues}

\* the search_term argument; given = FALSE is None
Term(text) == [given |-> TRUE, text |-> text]

NoTerm == [given |-> FALSE, text |-> <<>>]

SearchTerms ==
    {NoTerm, Term(<<>>), Term(Jo), Term(Sm), Term(JoSm), Term(SmJo),
     Term(<<"s", "m", ",", " ", "j", "o">>), Term(<<"s", " ", "j">>),
     Term(<<"z", "z", " ", "j", "o">>), Term(<<"j", "o", ",">>),
     Term(<<"j", "o", "_", "s", "m">>), Term(<<"z", "z">>)}

\* value LIKE pattern, with the wildcards % and _
RECURSIVE LikeMatch(_, _)
LikeMatch(value, pattern) ==
    IF pattern = <<>> THEN value = <<>>
    ELSE IF Head(pattern) = "%"
         THEN \/ LikeMatch(value, Tail(pattern))
              \/ value # <<>> /\ LikeMatch(Tail(value), pattern)
    ELSE /\ value # <<>>
         /\ Head(pattern) = "_" \/ Head(pattern) = Head(value)
         /\ LikeMatch(Tail(value), Tail(pattern))

\* f"%{text}%"
Containing(text) == <<"%">> \o text \o <<"%">>

\* the rows of SELECT column, COUNT(*) ... GROUP BY column for the values in vs
Grouped(column, vs) == {[value |-> v, count |-> column[v]] : v \in vs}

\* ORDER BY cnt DESC LIMIT n
TopRows(rows, n) ==
    IF Cardinality(rows) <= n THEN rows
    ELSE CHOOSE S \in SUBSET rows :
            /\ Cardinality(S) = n
            /\ \A r \in S, q \in rows \ S : r.count >= q.count

SimilarLimit == 10
WordLimit == 5
DefaultLimit == 20
MinWordLength == 2

\* WHERE column LIKE %text% ... LIMIT n
LikeRows(column, text, n) ==
    TopRows(Grouped(column, {v \in DOMAIN column : LikeMatch(v, Containing(text))}), n)

\* re.split(r'[,\s]+', search_term), keeping the words of length >= 2
RECURSIVE SplitWords(_, _)
SplitWords(text, word) ==
    LET done == IF Len(word) >= MinWordLength THEN <<word>> ELSE <<>>
    IN IF text = <<>> THEN done
       ELSE IF Head(text) \in {",", " "} THEN done \o SplitWords(Tail(text), <<>>)
       ELSE SplitWords(Tail(text), Append(word, Head(text)))

\* lines 94-132 of the tool_agent module: the search by single words
WordMatches(column, text) ==
    LET words == SplitWords(text, <<>>)
        all_words_rows ==
            IF Len(words) >= 2
            THEN TopRows(Grouped(column,
                     {v \in DOMAIN column :
                         \A i \in 1..Len(words) : LikeMatch(v, Containing(words[i]))}),
                     WordLimit)
            ELSE {}
        found == {words[i] : i \in 1..Len(words)}
    IN [kind |-> "dict", ALL_WORDS |-> all_words_rows,
        words |-> [w \in {x \in found : LikeRows(column, x, WordLimit) # {}} |->
                      LikeRows(column, w, WordLimit)]]

\* a variant of the exact match that accepts a stored value containing the text
ExactMatch_Substring(column, text) ==
    IF \E v \in DOMAIN column : LikeMatch(v, Containing(text)) THEN "True" ELSE "False"

\* lines 75-78: SELECT COUNT(*) ... WHERE column = %s, exact_count > 0; the
\* comparison is the equality of the data store
ExactMatch(column, text) ==
    IF text \in DOMAIN column THEN "True" ELSE "False"

NoWordMatches(kind) == [kind |-> kind, ALL_WORDS |-> {}, words |-> <<>>]

\* what the data store does to one lookup: "connect" = the connection fails,
\* "query" = a query fails, "close" = closing fails
LookupFailures == {"none", "connect", "query", "close"}

\* lookup_column_values of module impl ("tool_agent" or "agent"): the dict
\* returned, and whether the connection it opened is left open
lookup_column_values(impl, column, search_term, failure) ==
    LET searched == search_term.given /\ search_term.text # <<>>
        exact_match == IF ~searched THEN None ELSE ExactMatch(column, search_term.text)
        similar_values == IF ~searched THEN {}
                          ELSE LikeRows(column, search_term.text, SimilarLimit)
        word_matches ==
            IF impl = "agent" THEN NoWordMatches("absent")
            ELSE IF searched /\ exact_match = "False" /\ similar_values = {}
                 THEN WordMatches(column, search_term.text)
                 ELSE NoWordMatches(None)
    IN IF failure = "none"
       THEN [leaked |-> FALSE,
             result |-> [success |-> TRUE, search_term |-> search_term,
                         exact_match |-> exact_match,
                         similar_values |-> [none |-> ~searched, rows |-> similar_values],
                         word_matches |-> word_matches,
                         distinct_count |-> Cardinality(DOMAIN column),
                         values |-> TopRows(Grouped(column, DOMAIN column), DefaultLimit),
                         error |-> None]]
       ELSE [leaked |-> failure # "connect",
             result |-> [success |-> FALSE, distinct_count |-> 0, values |-> {},
                         error |-> failure]]

\* the calls of lookup_column_values: through OpenAIModel._execute_tool_call
\* (via = "_execute_tool_call"), which imports the agent module, or of the
\* tool_agent function; failure is what the data store does to the call
LookupCalls ==
    [op : {"lookup_column_values"}, via : {"_execute_tool_call", "tool_agent"},
     column : Columns, search_term : SearchTerms, failure : LookupFailures]

\* ------------------------------------------------------------------------
\* Execution of a candidate: OpenAIModel._execute_sql and execute_sql of
\* run_baseline_analysis.py
\* ------------------------------------------------------------------------
\* the candidate queries that are executed
ExecSqls ==
    {<<W("select"), W("a"), W("from"), W("X")>>,
     <<W("select"), W("a"), W("from"), W("X"), W("limit"), W("10")>>,
     <<W("select"), W("credit_limit"), W("from"), W("X")>>,
     <<W("select"), W("a"), W("from"), W("X"), Sym(";")>>,
     <<W("show"), W("tables")>>}

\* the words that contain the letters of word
Superstrings(word) == IF word = "LIMIT" THEN {"LIMIT", "CREDIT_LIMIT"} ELSE {word}

\* word in sql_upper: the substring test on the upper-cased text
Mentions(sql_upper, word) ==
    \E i \in 1..Len(sql_upper) :
        sql_upper[i].a \in Superstrings(word) \/ sql_upper[i].c \in Superstrings(word)

\* sql.rstrip(';')
RECURSIVE RstripSemicolon(_)
RstripSemicolon(query) ==
    IF query # <<>> /\ query[Len(query)] = Sym(";")
    THEN RstripSemicolon(SubSeq(query, 1, Len(query) - 1))
    ELSE query

\* run_baseline_analysis.py lines 76-78: the text that execute_sql executes
baseline_sql(query) ==
    LET sql_upper == UpperSql(query)
    IN IF ~Mentions(sql_upper, "LIMIT") /\ Mentions(sql_upper, "SELECT")
       THEN RstripSemicolon(query) \o <<W("LIMIT"), W("10000")>>
       ELSE query

\* what the data store does to one execution: db as in DbBehaviours,
\* connected = the connection was opened, message = the words of the error
\* message that the classification looks for
ExecBehaviours ==
    {b \in [db : DbBehaviours, connected : BOOLEAN,
            message : {None, "interrupted", "max_execution_time", "other"}] :
        /\ b.db.kind \in {"rows", "timeout"} => b.connected
        /\ b.db.kind = "timeout" <=> b.message \in {"interrupted", "max_execution_time"}
        /\ b.message = None <=> (b.db.kind = "rows" /\ b.db.close_ok)}

\* run_baseline_analysis.execute_sql: the dict returned
baseline_execute_sql(b) ==
    IF b.db.kind = "rows" /\ b.db.close_ok
    THEN [success |-> TRUE, row_count |-> b.db.n, error |-> None,
          error_type |-> IF b.db.n = 0 THEN "empty_result" ELSE None]
    ELSE [success |-> FALSE, row_count |-> 0, error |-> b.message,
          error_type |-> IF b.db.kind # "exception" /\ b.message = "max_execution_time"
                         THEN "timeout" ELSE "syntax_error"]

ExecCalls ==
    [op : {"_execute_sql", "execute_sql"}, sql : ExecSqls, behaviour : ExecBehaviours]

\* ------------------------------------------------------------------------
\* The schema note of one query: ParsingNoteTaker().generate_note(item, sql)
\* ------------------------------------------------------------------------
\* query texts handed to generate_note
NoteSqls ==
    { \* SELECT X.a FROM X JOIN Y ON X.a = Y.b
      <<W("SELECT"), R("X", "a"), W("FROM"), W("X"), W("JOIN"), W("Y"), W("ON"),
        R("X", "a"), Sym("="), R("Y", "b")>>,
      \* select y.b from x join y on y.b = x.a
      <<W("select"), R("y", "b"), W("from"), W("x"), W("join"), W("y"), W("on"),
        R("y", "b"), Sym("="), R("x", "a")>>,
      \* SELECT t1.c FROM Z AS t1 JOIN X ON t1.c = X.c JOIN Y ON Y.b = X.a GROUP BY t1.c
      <<W("SELECT"), R("t1", "c"), W("FROM"), W("Z"), W("AS"), W("t1"), W("JOIN"),
        W("X"), W("ON"), R("t1", "c"), Sym("="), R("X", "c"), W("JOIN"), W("Y"),
        W("ON"), R("Y", "b"), Sym("="), R("X", "a"), W("GROUP"), W("BY"),
        R("t1", "c")>>,
      \* SELECT t1.a FROM X t1 JOIN Y t2 ON t1.a = t2.b WHERE t2.b = t1.a
      <<W("SELECT"), R("t1", "a"), W("FROM"), W("X"), W("t1"), W("JOIN"), W("Y"),
        W("t2"), W("ON"), R("t1", "a"), Sym("="), R("t2", "b"), W("WHERE"),
        R("t2", "b"), Sym("="), R("t1", "a")>>,
      \* SELECT t2.b FROM X JOIN Y t2 ON X.a = t2.b
      <<W("SELECT"), R("t2", "b"), W("FROM"), W("X"), W("JOIN"), W("Y"), W("t2"),
        W("ON"), R("X", "a"), Sym("="), R("t2", "b")>>,
      \* select t2.b from x join y as t2 on x.a = t2.b group by t2.b
      <<W("select"), R("t2", "b"), W("from"), W("x"), W("join"), W("y"), W("as"),
        W("t2"), W("on"), R("x", "a"), Sym("="), R("t2", "b"), W("group"), W("by"),
        R("t2", "b")>>,
      \* SELECT t2.b FROM X LEFT JOIN Y t2 ON X.a = t2.b
      <<W("SELECT"), R("t2", "b"), W("FROM"), W("X"), W("LEFT"), W("JOIN"), W("Y"),
        W("t2"), W("ON"), R("X", "a"), Sym("="), R("t2", "b")>>,
      \* SELECT X.a FROM X JOIN Y ON X.a = Y.c
      <<W("SELECT"), R("X", "a"), W("FROM"), W("X"), W("JOIN"), W("Y"), W("ON"),
        R("X", "a"), Sym("="), R("Y", "c")>>,
      \* select a from X
      <<W("select"), W("a"), W("from"), W("X")>>,
      \* an empty text
      <<>> }

\* an item whose only join key is the pair (first, second)
JoinItem(first, second) == [given |-> TRUE, mapping |-> <<>>, join_keys |-> << <<first, second>> >>]

NoteItems ==
    {JoinItem(R("X", "a"), R("Y", "b")), JoinItem(R("Y", "b"), R("X", "a")),
     JoinItem(R("x", "A"), R("y", "B")), JoinItem(R("y", "b"), R("x", "a")),
     JoinItem(R("X", "a"), R("Z", "c")),
     [given |-> TRUE,
      mapping |-> <<[keyword |-> "kw", columns |-> <<R("Y", "b")>>]>>,
      join_keys |-> <<>>]}

\* ParsingNoteTaker().generate_note(item, sql): the taker has no hints yet, so
\* set_item parses the item; the note has one line per non-empty difference
generate_note(an_item, query) ==
    LET hints == parse_hints(an_item)
        sql_parsed == parse_sql(query)
        comparison == compare(hints, sql_parsed)
    IN [hints_parsed |-> hints,
        sql_parsed |-> sql_parsed,
        comparison |-> comparison,
        notes |-> {k \in {"Column Check", "Join Check", "Table Check"} :
                     \/ k = "Column Check" /\ comparison.missing_columns # {}
                     \/ k = "Join Check" /\ comparison.missing_joins # {}
                     \/ k = "Table Check" /\ comparison.missing_tables # {}}]

NoteCalls == [op : {"generate_note"}, item : NoteItems, sql : NoteSqls]

\* ------------------------------------------------------------------------
\* distinct_advisor.check_distinct_need
\* ------------------------------------------------------------------------
\* at most this many join pairs are supplied
MaxPairs == 2

\* the answer of the COUNT(*), COUNT(DISTINCT col) query for one join column
ColumnStats ==
    {[total |-> 0, distinct_count |-> 0], [total |-> 2, distinct_count |-> 2],
     [total |-> 2, distinct_count |-> 1]}

UniqueStats == [total |-> 2, distinct_count |-> 2]

\* a supplied join pair: both sides of the form table.column ("ok") or not
\* ("malformed"), what its two queries answer, and whether a query raises
JoinPairs ==
    [shape : {"ok"}, left : ColumnStats, right : ColumnStats, query : {"ok"}]
    \cup [shape : {"malformed"}, left : {UniqueStats}, right : {UniqueStats}, query : {"ok"}]
    \cup [shape : {"ok"}, left : {UniqueStats}, right : {UniqueStats}, query : {"raise"}]

JoinPairLists == UNION {[1..n -> JoinPairs] : n \in 0..MaxPairs}

\* lines 77-109: the cardinality of one analysed pair
PairCardinality(pair) ==
    LET left_is_unique == pair.left.total = pair.left.distinct_count
        right_is_unique == pair.right.total = pair.right.distinct_count
    IN IF pair.query = "raise" THEN "UNKNOWN"
       ELSE IF left_is_unique /\ right_is_unique THEN "1:1"
       ELSE IF left_is_unique /\ ~right_is_unique THEN "1:N"
       ELSE IF ~left_is_unique /\ right_is_unique THEN "N:1"
       ELSE "M:N"

\* lines 65-123: a pair that is not of the form table.column on both sides
\* is skipped; the others get one entry each, in order
CardinalityAnalysis(join_pairs) ==
    LET kept == SelectSeq(join_pairs, LAMBDA pair : pair.shape = "ok")
    IN [n \in 1..Len(kept) |-> PairCardinality(kept[n])]

\* check_distinct_need: needs_distinct is "True", "False" or None
check_distinct_need(join_pairs, connect_ok) ==
    IF join_pairs = <<>>
    THEN [needs_distinct |-> "False", risk_level |-> "none", cardinality_analysis |-> <<>>]
    ELSE IF ~connect_ok
    THEN [needs_distinct |-> None, risk_level |-> "unknown", cardinality_analysis |-> <<>>]
    ELSE LET cardinalities == CardinalityAnalysis(join_pairs)
             has_mn == \E n \in 1..Len(cardinalities) : cardinalities[n] = "M:N"
             has_1n == \E n \in 1..Len(cardinalities) : cardinalities[n] \in {"1:N", "N:1"}
         IN [needs_distinct |-> IF has_mn \/ has_1n THEN "True" ELSE "False",
             risk_level |-> IF has_mn THEN "high" ELSE IF has_1n THEN "medium" ELSE "low",
             cardinality_analysis |-> cardinalities]

DistinctCalls ==
    [op : {"check_distinct_need"}, join_pairs : JoinPairLists, connect_ok : BOOLEAN]

\* ------------------------------------------------------------------------
\* Single invocations of the tools and of the execution
\* ------------------------------------------------------------------------
Invocations == LookupCalls \cup ExecCalls \cup NoteCalls \cup DistinctCalls

ToolInit ==
    /\ tool_pc = "called"
    /\ invocation \in Invocations
    /\ tool_result = None
    /\ open_connections = 0
    /\ LoopIdle
    /\ PathIdle
    /\ InspectIdle
    /\ NoteIdle
    /\ BatchIdle

\* the invocation returns result; leaked: its connection is still open
Returns(result, leaked) ==
    /\ tool_pc = "called"
    /\ tool_pc' = "returned"
    /\ tool_result' = result
    /\ open_connections' = open_connections + (IF leaked THEN 1 ELSE 0)
    /\ UNCHANGED invocation
    /\ UNCHANGED outsideTools

LookupColumnValues ==
    /\ invocation.op = "lookup_column_values"
    /\ LET impl == IF invocation.via = "_execute_tool_call" THEN "agent" ELSE "tool_agent"
           out == lookup_column_values(impl, invocation.column, invocation.search_term,
                                       invocation.failure)
       IN Returns(out.result, out.leaked)

\* OpenAIModel._execute_sql: the candidate is executed as it is; the
\* connection is closed on the path without exception only (lines 854-855)
ExecuteSql ==
    /\ invocation.op = "_execute_sql"
    /\ LET b == invocation.behaviour
       IN Returns([executed |-> IF b.connected THEN invocation.sql ELSE <<>>,
                   result |-> execute_sql(b.db)],
                  b.connected /\ ~(b.db.kind = "rows" /\ b.db.close_ok))

\* run_baseline_analysis.execute_sql: the finally block closes the
\* connection unless closing fails
BaselineExecuteSql ==
    /\ invocation.op = "execute_sql"
    /\ LET b == invocation.behaviour
       IN Returns([executed |-> IF b.connected THEN baseline_sql(invocation.sql) ELSE <<>>,
                   result |-> baseline_execute_sql(b)],
                  b.connected /\ ~b.db.close_ok)

\* the note taker opens no connection
GenerateNote ==
    /\ invocation.op = "generate_note"
    /\ Returns(generate_note(invocation.item, invocation.sql), FALSE)

\* the finally block closes the connection (lines 165-167)
CheckDistinctNeed ==
    /\ invocation.op = "check_distinct_need"
    /\ Returns(check_distinct_need(invocation.join_pairs, invocation.connect_ok), FALSE)

ToolNext ==
    \/ LookupColumnValues
    \/ ExecuteSql
    \/ BaselineExecuteSql
    \/ GenerateNote
    \/ CheckDistinctNeed

ToolSpec == ToolInit /\ [][ToolNext]_vars

\* ------------------------------------------------------------------------
\* The operations of one ParsingNoteTaker, called in any order
\* ------------------------------------------------------------------------
\* at most this many records, results and parse_sql calls are held at a time
MaxOps == 3

OpsHeld ==
    Len(iter_notes) + Len(lookup_results) + Len(join_analysis_results) + Len(parse_log)

\* the texts handed to parse_sql: the candidates and one with aliases lost
ParsedSqls == Range(Queries) \cup {q \in NoteSqls : Len(q) = 11 /\ q[7] = W("t2")}

NoteInit ==
    /\ LoopIdle
    /\ PathIdle
    /\ InspectIdle
    /\ ToolIdle
    /\ NoteIdle
    /\ BatchIdle

\* ParsingNoteTaker(item), as generate constructs it (item is not None)
NtConstruct(it) ==
    /\ pc = "idle"
    /\ pc' = "note_taker"
    /\ item' = it
    /\ hints_parsed' = parse_hints(it)
    /\ UNCHANGED <<iter_notes, lookup_results, noteVars, outsideNotes>>

\* ParsingNoteTaker.set_item
NtSetItem(it) ==
    /\ pc = "note_taker"
    /\ item' = it
    /\ hints_parsed' = parse_hints(it)
    /\ iter_notes' = <<>>
    /\ lookup_results' = <<>>
    /\ join_analysis_results' = <<>>
    /\ UNCHANGED <<pc, parse_log, outsideNotes>>

\* ParsingNoteTaker.add_lookup_result
NtAddLookupResult(found) ==
    /\ pc = "note_taker"
    /\ OpsHeld < MaxOps
    /\ lookup_results' = Append(lookup_results, [found |-> found])
    /\ UNCHANGED <<pc, item, hints_parsed, iter_notes, noteVars, outsideNotes>>

\* ParsingNoteTaker.add_join_analysis_result
NtAddJoinAnalysisResult(cardinality) ==
    /\ pc = "note_taker"
    /\ OpsHeld < MaxOps
    /\ join_analysis_results' =
           Append(join_analysis_results,
                  [cardinality |-> cardinality,
                   warning |-> IF cardinality = "M:N" THEN "fan-out" ELSE None])
    /\ UNCHANGED <<pc, item, hints_parsed, iter_notes, lookup_results, parse_log,
                   outsideNotes>>

\* ParsingNoteTaker.add_iter_note
NtAddIterNote(s, beh, feedback) ==
    /\ pc = "note_taker"
    /\ OpsHeld < MaxOps
    /\ iter_notes' = add_iter_note(iter_notes, Len(iter_notes) + 1, s, execute_sql(beh),
                                   feedback)
    /\ UNCHANGED <<pc, item, hints_parsed, lookup_results, noteVars, outsideNotes>>

\* a variant that rewrites the critique of every record
update_llm_feedback_All(notes, feedback) ==
    [i \in 1..Len(notes) |-> [notes[i] EXCEPT !.llm_feedback = feedback]]

\* ParsingNoteTaker.update_llm_feedback: the last record is rewritten
update_llm_feedback(notes, feedback) ==
    IF notes = <<>> THEN notes
    ELSE [notes EXCEPT ![Len(notes)].llm_feedback = feedback]

NtUpdateLlmFeedback(feedback) ==
    /\ pc = "note_taker"
    /\ iter_notes' = update_llm_feedback(iter_notes, feedback)
    /\ UNCHANGED <<pc, item, hints_parsed, lookup_results, noteVars, outsideNotes>>

\* a variant whose tables also hold the tables of the hints
ParseCall_WithHints(query) ==
    [sql |-> query, parsed |-> [parse_sql(query) EXCEPT !.tables = @ \cup hints_parsed.tables]]

\* note_taker.parse_sql(query): the call and what it returned
ParseCall(query) == [sql |-> query, parsed |-> parse_sql(query)]

NtParseSql(query) ==
    /\ pc = "note_taker"
    /\ OpsHeld < MaxOps
    /\ parse_log' = Append(parse_log, ParseCall(query))
    /\ UNCHANGED <<pc, item, hints_parsed, iter_notes, lookup_results,
                   join_analysis_results, outsideNotes>>

NoteNext ==
    \/ \E it \in Items : NtConstruct(it)
    \/ \E it \in Items \cup {NoItem} : NtSetItem(it)
    \/ \E found \in BOOLEAN : NtAddLookupResult(found)
    \/ NtAddJoinAnalysisResult("M:N")
    \/ \E s \in Candidates, beh \in {b \in NoteDbBehaviours : b.n = 0}, feedback \in {None, "LIMIT is not asked for"} : NtAddIterNote(s, beh, feedback)
    \/ \E feedback \in {None, "DISTINCT is missing"} : NtUpdateLlmFeedback(feedback)
    \/ \E query \in ParsedSqls : NtParseSql(query)

NoteSpec == NoteInit /\ [][NoteNext]_vars

\* ------------------------------------------------------------------------
\* The batch runner (main.py): one process_item task per dataset item on a
\* thread pool, the main thread collects the futures as they complete
\* ------------------------------------------------------------------------
\* items of the dataset
NumQuestions == 2

\* --refine_max_iter default: rounds of the refine loop of a task
RefineMaxIterDefault == 1

\* question texts; two items may carry the same text
QuestionTexts == {"qa", "qb"}

BatchInit ==
    /\ dataset \in [1..NumQuestions -> QuestionTexts]
    /\ task_pc = [i \in 1..NumQuestions |-> "submitted"]
    /\ task_log = [i \in 1..NumQuestions |-> <<>>]
    /\ task_messages = [i \in 1..NumQuestions |-> <<>>]
    /\ batch_pc = "collecting"
    /\ batch_results = <<>>
    /\ predictions = <<>>
    /\ LoopIdle
    /\ PathIdle
    /\ InspectIdle
    /\ ToolIdle
    /\ NoteIdle

\* a variant that keeps one log for all tasks (the log of task 1)
TaskStep_SharedLog(i, to, entries, msgs) ==
    /\ task_pc' = [task_pc EXCEPT ![i] = to]
    /\ task_log' = [task_log EXCEPT ![1] = @ \o entries]
    /\ task_messages' = [task_messages EXCEPT ![i] = @ \o msgs]
    /\ UNCHANGED <<dataset, batch_pc, batch_results, predictions>>
    /\ UNCHANGED outsideBatch

\* a step of task i: its position, its log and its messages are locals of
\* its own process_item / generate call
TaskStep(i, to, entries, msgs) ==
    /\ task_pc' = [task_pc EXCEPT ![i] = to]
    /\ task_log' = [task_log EXCEPT ![i] = @ \o entries]
    /\ task_messages' = [task_messages EXCEPT ![i] = @ \o msgs]
    /\ UNCHANGED <<dataset, batch_pc, batch_results, predictions>>
    /\ UNCHANGED outsideBatch

\* an entry of the tool_call_log of task i
TaskEntry(i, type) == [task |-> i, type |-> type]

\* process_item up to the generate call: the prompt is built, or an
\* exception leaves the task
TaskStart(i, ok) ==
    /\ task_pc[i] = "submitted"
    /\ IF ok
       THEN TaskStep(i, "generate", <<>>, <<"system", "user">>)
       ELSE TaskStep(i, "raised", <<>>, <<>>)

\* generate: the first answer; an exception makes generate return None and
\* process_item return its error text
TaskGenerate(i, answer, refine) ==
    /\ task_pc[i] = "generate"
    /\ CASE answer = "raise" -> TaskStep(i, "finished", <<>>, <<>>)
         [] answer = "sql" /\ refine /\ RefineMaxIterDefault > 0 ->
                TaskStep(i, "execute", <<TaskEntry(i, "final_response")>>, <<>>)
         [] OTHER -> TaskStep(i, "finished", <<TaskEntry(i, "final_response")>>, <<>>)

\* refine loop: _execute_sql; rows end the loop
TaskExecute(i, rows) ==
    /\ task_pc[i] = "execute"
    /\ IF rows
       THEN TaskStep(i, "finished", <<TaskEntry(i, "refine_success")>>, <<>>)
       ELSE TaskStep(i, "analyse", <<>>, <<>>)

\* refine loop: _run_refine_agent; no feedback ends the loop
TaskAnalyse(i, feedback) ==
    /\ task_pc[i] = "analyse"
    /\ IF feedback
       THEN TaskStep(i, "regenerate", <<TaskEntry(i, "refine_trigger")>>,
                     <<"assistant", "user">>)
       ELSE TaskStep(i, "finished", <<>>, <<>>)

\* refine loop: the regeneration, after which the only round is over
TaskRegenerate(i, answer) ==
    /\ task_pc[i] = "regenerate"
    /\ IF answer = "sql"
       THEN TaskStep(i, "finished", <<TaskEntry(i, "final_response")>>, <<>>)
       ELSE TaskStep(i, "finished", <<>>, <<>>)

\* a record of all_results; item tells which dataset item it was made for
BatchRecord(i, kind) == [question |-> dataset[i], item |-> i, kind |-> kind]

\* main, lines 338-351: the future of task i is taken; its result is
\* appended and logged, an exception of the task or of the logger appends
\* an error record
Collect(i, log_ok) ==
    /\ batch_pc = "collecting"
    /\ task_pc[i] \in {"finished", "raised"}
    /\ task_pc' = [task_pc EXCEPT ![i] = "collected"]
    /\ batch_results' =
          IF task_pc[i] = "raised"
          THEN Append(batch_results, BatchRecord(i, "error"))
          ELSE IF log_ok
          THEN Append(batch_results, BatchRecord(i, "result"))
          ELSE batch_results \o <<BatchRecord(i, "result"), BatchRecord(i, "error")>>
    /\ UNCHANGED <<dataset, task_log, task_messages, batch_pc, predictions>>
    /\ UNCHANGED outsideBatch

\* [item['question'] for item in dataset].index(question)
QuestionIndex(question) ==
    CHOOSE i \in 1..Len(dataset) :
        dataset[i] = question /\ \A j \in 1..(i - 1) : dataset[j] # question

\* a variant that sorts by the item a record was made for
SortKey_Item(r) == r.item

\* the sort key of a record (line 355)
SortKey(r) == QuestionIndex(r.question)

\* list.sort(key=...): stable, ascending
RECURSIVE SortedUpTo(_, _)
SortedUpTo(results, k) ==
    IF k = 0 THEN <<>>
    ELSE SortedUpTo(results, k - 1) \o SelectSeq(results, LAMBDA r : SortKey(r) = k)

\* main, line 355: the pool has drained, the results are sorted
SortResults ==
    /\ batch_pc = "collecting"
    /\ \A i \in 1..Len(dataset) : task_pc[i] = "collected"
    /\ batch_results' = SortedUpTo(batch_results, Len(dataset))
    /\ batch_pc' = "sorted"
    /\ UNCHANGED <<dataset, task_pc, task_log, task_messages, predictions>>
    /\ UNCHANGED outsideBatch

\* main, lines 357-366: predictions.json is written
Persist ==
    /\ batch_pc = "sorted"
    /\ predictions' = batch_results
    /\ batch_pc' = "persisted"
    /\ UNCHANGED <<dataset, task_pc, task_log, task_messages, batch_results>>
    /\ UNCHANGED outsideBatch

BatchNext ==
    \/ \E i \in 1..NumQuestions, ok \in BOOLEAN : TaskStart(i, ok)
    \/ \E i \in 1..NumQuestions, answer \in {"sql", "none", "raise"}, refine \in BOOLEAN : TaskGenerate(i, answer, refine)
    \/ \E i \in 1..NumQuestions, rows \in BOOLEAN : TaskExecute(i, rows)
    \/ \E i \in 1..NumQuestions, feedback \in BOOLEAN : TaskAnalyse(i, feedback)
    \/ \E i \in 1..NumQuestions, answer \in {"sql", "none"} : TaskRegenerate(i, answer)
    \/ \E i \in 1..NumQuestions, log_ok \in BOOLEAN : Collect(i, log_ok)
    \/ SortResults
    \/ Persist

BatchSpec == BatchInit /\ [][BatchNext]_vars

\* ------------------------------------------------------------------------
\* Properties of the refinement loops
\* ------------------------------------------------------------------------
Count(seq, x) == Cardinality({i \in 1..Len(seq) : seq[i] = x})

\* the comparison of the hints with the candidate of the round just recorded
\* reports no missing table, column or join
NothingMissing ==
    LET cmp == compare(hints_parsed, parse_sql(SqlText(sql)))
    IN cmp.missing_tables = {} /\ cmp.missing_columns = {} /\ cmp.missing_joins = {}

\* the round just recorded satisfies the stop condition of the spec
RoundSatisfied ==
    /\ exec_result.success /\ exec_result.row_count > 0
    /\ NothingMissing
    /\ llm_feedback = None

\* C1: after a round's record is appended, the note-taking loop stops as
\* satisfied if and only if the round's execution succeeded with row_count > 0,
\* nothing is missing and the critique returned no issue (None); in every
\* other case, when rounds remain, it requests another generation.
C1_StopsIffSatisfied ==
    [][pc = "note_decide" =>
          /\ (pc' = "note_final" /\ brk' = "satisfied") <=> RoundSatisfied
          /\ (~RoundSatisfied /\ note_iter < cfg.max_refine + 1)
                => /\ pc' = "note_regen"
                   /\ brk' = "none"
                   /\ Len(messages') = Len(messages) + 2
                   /\ messages'[Len(messages')].body.kind = "note_refine"]_vars

\* a run that went on after a round whose only defect was the critique's
\* issue, and stopped as satisfied after the next round
C1_Witness ==
    /\ pc = "note_final" /\ brk = "satisfied"
    /\ Len(iter_notes) = 2
    /\ iter_notes[1].refine_feedback.mark = "ok"
    /\ ~HasUnchecked(iter_notes[1].schema_check)
    /\ iter_notes[1].llm_feedback # None

\* rounds, regeneration requests and tool-phase calls stay within their budgets
WithinBudget ==
    /\ Len(exec_log) <= cfg.max_refine + 1
    /\ Len(iter_notes) <= cfg.max_refine + 1
    /\ Count(gen_log, "note_regen") + Count(gen_log, "refine_regen") <= cfg.max_refine
    /\ Count(gen_log, "tool_phase") <= max_iterations

\* an upper bound of the steps generate and process_item have left, from the
\* position and the loop variables
StepsLeft ==
    LET m == cfg.max_refine
        afterTools == 3 * m + 7
    IN CASE pc = "done" -> 0
         [] pc = "returned" -> 1
         [] pc = "return" -> 2
         [] pc = "note_final" -> 3
         [] pc = "note_regen" -> 4 + 3 * (m + 1 - note_iter)
         [] pc = "note_decide" -> 5 + 3 * (m + 1 - note_iter)
         [] pc = "note_round" -> 6 + 3 * (m + 1 - note_iter)
         [] pc = "refine_regen" -> 4 + 2 * (m - refine_iter)
         [] pc = "refine_round" -> 5 + 2 * (m - refine_iter)
         [] pc = "tools" -> afterTools + 3 * (max_iterations - iteration)
                               + Len(response.tool_calls) - tool_idx
         [] pc = "loop" -> afterTools + 3 * (max_iterations - iteration) + 2
         [] OTHER -> afterTools + 3 * max_iterations + 3

\* C2: the refinement loop runs at most max_refine + 1 rounds and issues at
\* most max_refine regeneration requests, the tool-calling phase makes at most
\* max_iterations generation calls, and generate terminates: every step keeps
\* the budgets and lowers a non-negative bound of the steps left.
C2_BoundedRounds ==
    [][/\ WithinBudget'
       /\ StepsLeft' < StepsLeft
       /\ StepsLeft' >= 0]_vars

\* a finished run that used every round, every regeneration and every call
\* of the tool phase
C2_Witness ==
    /\ pc = "returned"
    /\ cfg.max_refine >= 1 /\ max_iterations >= 2
    /\ Len(iter_notes) = cfg.max_refine + 1
    /\ Count(gen_log, "note_regen") = cfg.max_refine
    /\ Count(gen_log, "tool_phase") = max_iterations

\* the first round gave an empty result with nothing missing, the second rows
\* with nothing missing
ScenarioC ==
    /\ Len(iter_notes) >= 2
    /\ iter_notes[1].refine_feedback.mark = "warn"
    /\ ~HasUnchecked(iter_notes[1].schema_check)
    /\ iter_notes[2].refine_feedback.mark = "ok"
    /\ ~HasUnchecked(iter_notes[2].schema_check)

\* the trace holds one record per executed round, numbered 1..n in order
OneRecordPerRound ==
    NoteTakerExists =>
        /\ Len(iter_notes) = Len(exec_log)
        /\ \A i \in 1..Len(iter_notes) :
              iter_notes[i].iter = i /\ iter_notes[i].sql = exec_log[i]

\* C3 as stated: every round appends exactly one record, the records carry the
\* indices 1..n, and a run whose first round is an empty success with nothing
\* missing and whose second round is a non-empty success with nothing missing
\* ends with a trace of length 2.
C3_Original ==
    /\ OneRecordPerRound
    /\ ScenarioC => Len(iter_notes) = 2

\* C3 amended: the same, for a second round in which the critique raised no
\* issue either.
C3_OneRecordPerRound ==
    /\ OneRecordPerRound
    /\ (ScenarioC /\ iter_notes[2].llm_feedback = None) => Len(iter_notes) = 2

\* a finished run of the scenario that had a round left and an active critique
C3_Witness ==
    /\ pc = "returned"
    /\ ScenarioC /\ iter_notes[2].llm_feedback = None
    /\ cfg.llm_feedback /\ cfg.max_refine = 2
    /\ Len(iter_notes) = 2

\* generate returned after the note-taking loop logged its final note
NoteLoopFinished ==
    /\ pc = "returned" /\ returned.kind = "wrapper"
    /\ \E i \in 1..Len(returned.tool_call_log) :
          returned.tool_call_log[i].type = "note_taking_final"

\* the persisted trace: the data of the note_taking_final log entry
FinalNote ==
    LET log == returned.tool_call_log
    IN log[CHOOSE i \in 1..Len(log) : log[i].type = "note_taking_final"].data

\* the status mark of a persisted trace, None when it carries none
TraceStatus(note) == IF "status" \in DOMAIN note THEN note.status ELSE None

\* the returned answer is the candidate of the last record
AnswerIsLastCandidate ==
    returned.response.content =
        [kind |-> "sql", cand |-> FinalNote.iters[Len(FinalNote.iters)].sql]

\* the last record shows a successful execution with rows, no unchecked line
\* and no critique
LastRecordClean ==
    LET last == FinalNote.iters[Len(FinalNote.iters)]
    IN /\ last.refine_feedback.mark = "ok"
       /\ ~HasUnchecked(last.schema_check)
       /\ last.llm_feedback = None

C5_BestEffortCandidatePersisted ==
    (pc = "done" /\ exec_log # <<>>) =>
        /\ Len(all_results) = 1
        /\ all_results[1].predicted_sql.kind = "text"
        /\ all_results[1].predicted_sql.content.kind = "sql"
        /\ all_results[1].predicted_sql.content.cand \in Range(exec_log) \cup {sql}

\* ------------------------------------------------------------------------
\* Properties of the join path finder
\* ------------------------------------------------------------------------
Nodes(graph) == DOMAIN graph.nbrs

IsEdge(graph, a, b) == <<a, b>> \in DOMAIN graph.edge

\* p visits no table twice
Simple(p) == \A i, j \in 1..Len(p) : i # j => p[i] # p[j]

\* p leads from start to end along edges of the graph
Connects(graph, p, start, end) ==
    /\ Len(p) >= 1 /\ p[1] = start /\ p[Len(p)] = end
    /\ \A i \in 1..(Len(p) - 1) : IsEdge(graph, p[i], p[i + 1])

\* the simple paths of the graph from start to end with at most n tables
SimplePaths(graph, start, end, n) ==
    {p \in UNION {[1..k -> Nodes(graph)] : k \in 1..Min(n, Cardinality(Nodes(graph)))} :
        Simple(p) /\ Connects(graph, p, start, end)}

\* find_all_paths returned for two distinct nodes of the graph
DistinctNodesCall ==
    /\ jp_pc = "found"
    /\ jp_table1 # jp_table2
    /\ {jp_table1, jp_table2} \subseteq Nodes(jp_graph)

\* with edges A-B and B-C, find_all_paths(A, C, 4) returns [A, B, C]
ScenarioABC ==
    (/\ jp_pc = "found" /\ jp_table1 = "A" /\ jp_table2 = "C" /\ jp_max_length = 4
     /\ IsEdge(jp_graph, "A", "B") /\ IsEdge(jp_graph, "B", "C"))
        => <<"A", "B", "C">> \in Range(jp_paths)

\* C6 as stated: for distinct nodes start and end, find_all_paths returns
\* every simple path from start to end of at most maxHops edges, those of
\* exactly maxHops edges included.
C6_Original ==
    /\ DistinctNodesCall
          => SimplePaths(jp_graph, jp_table1, jp_table2, jp_max_length + 1)
                \subseteq Range(jp_paths)
    /\ ScenarioABC

\* C6 amended: for distinct nodes start and end, find_all_paths returns
\* exactly the simple paths from start to end that visit at most maxHops
\* tables, that is of at most maxHops - 1 edges.
C6_AllPathsWithinMaxTables ==
    /\ DistinctNodesCall
          => Range(jp_paths) = SimplePaths(jp_graph, jp_table1, jp_table2, jp_max_length)
    /\ ScenarioABC

\* a call that returned several paths and left out one of exactly max_length
\* edges
C6_Witness ==
    /\ DistinctNodesCall
    /\ Len(jp_paths) >= 2
    /\ \E p \in SimplePaths(jp_graph, jp_table1, jp_table2, jp_max_length + 1) :
          Len(p) = jp_max_length + 1

\* C7 as stated: for every graph and table A, find_all_paths(graph, A, A, n)
\* returns exactly the path [A].
C7_Original ==
    (jp_pc = "found" /\ jp_table1 = jp_table2) => jp_paths = << <<jp_table1>> >>

\* C7 amended: find_all_paths(graph, A, A, n) returns exactly the path [A]
\* when A is a node of the graph, and no path when it is not.
C7_TrivialPathForNodes ==
    (jp_pc = "found" /\ jp_table1 = jp_table2) =>
        jp_paths = IF jp_table1 \in Nodes(jp_graph) THEN << <<jp_table1>> >> ELSE <<>>

\* a call with n = 0 on a node that is related to itself and to others
C7_Witness ==
    /\ jp_pc = "found" /\ jp_table1 = jp_table2
    /\ jp_max_length = 0
    /\ IsEdge(jp_graph, jp_table1, jp_table1)
    /\ Cardinality(Nodes(jp_graph)) >= 3
    /\ jp_paths = << <<jp_table1>> >>

\* C8: every path find_all_paths returns starts at start, ends at end, visits
\* no table twice, has at most maxHops edges and follows edges of the graph.
C8_PathsAreSound ==
    jp_pc = "found" =>
        \A i \in 1..Len(jp_paths) :
            /\ Connects(jp_graph, jp_paths[i], jp_table1, jp_table2)
            /\ Simple(jp_paths[i])
            /\ Len(jp_paths[i]) - 1 <= jp_max_length

\* a call that returned at least three paths, one of them over four tables
C8_Witness ==
    /\ jp_pc = "found"
    /\ Len(jp_paths) >= 3
    /\ \E i \in 1..Len(jp_paths) : Len(jp_paths[i]) = 4

RECURSIVE SumOver(_, _)
\* f[1] + ... + f[n]
SumOver(f, n) == IF n = 0 THEN 0 ELSE f[n] + SumOver(f, n - 1)

\* the score of a side in tenths, from the PK candidates file: 10 when the
\* join column is the table's recommended key, plus 0.1 x uniqueness%
SideQuality(table, column) ==
    (IF column = jp_pk_candidates[table].recommended_pk THEN 100 ELSE 0)
    + get_column_uniqueness(jp_pk_candidates[table], column)

\* the quality of a path as the specification defines it, in tenths
ClaimQuality(p) ==
    SumOver([i \in 1..(Len(p) - 1) |->
                SideQuality(p[i], jp_graph.edge[<<p[i], p[i + 1]>>].key1)
                + SideQuality(p[i + 1], jp_graph.edge[<<p[i], p[i + 1]>>].key2)],
            Len(p) - 1)

\* (length, -quality) of p is not larger than that of q
KeyNotAfter(p, q) ==
    \/ Len(p) < Len(q)
    \/ Len(p) = Len(q) /\ ClaimQuality(p) >= ClaimQuality(q)

\* the best path followed by the alternatives find_join_path reported
ShownByResult ==
    <<jp_result.best_path>>
    \o [i \in 1..Len(jp_result.alternatives) |-> jp_result.alternatives[i].path]

\* C9: the best path find_join_path reports minimises (length, -quality) over
\* the paths found, with quality the sum over the edges of 10 per side joined
\* on its table's recommended key plus 0.1 x uniqueness% per side; at most
\* two alternatives are reported, and they are the next paths in that order.
C9_BestMinimisesLengthThenQuality ==
    (jp_pc = "reported" /\ jp_result.kind \in {"direct", "multi_hop"}) =>
        /\ Range(ShownByResult) \subseteq Range(jp_paths)
        /\ Simple(ShownByResult)
        /\ \A p \in Range(jp_paths) : KeyNotAfter(jp_result.best_path, p)
        /\ Len(jp_result.alternatives) = Min(2, Len(jp_paths) - 1)
        /\ \A i \in 1..(Len(ShownByResult) - 1) :
              KeyNotAfter(ShownByResult[i], ShownByResult[i + 1])
        /\ \A p \in Range(jp_paths) \ Range(ShownByResult) :
              KeyNotAfter(ShownByResult[Len(ShownByResult)], p)
        /\ jp_result.quality = ClaimQuality(jp_result.best_path)
        /\ \A i \in 1..Len(jp_result.alternatives) :
              jp_result.alternatives[i].quality
                 = ClaimQuality(jp_result.alternatives[i].path)

\* a report on four paths in which the best path is not the first one found
\* and paths of equal length differ in quality
C9_Witness ==
    /\ jp_pc = "reported" /\ jp_result.kind = "multi_hop"
    /\ Len(jp_paths) >= 4
    /\ Len(jp_result.alternatives) = 2
    /\ jp_result.best_path # jp_paths[1]
    /\ Len(jp_result.alternatives[1].path) = Len(jp_result.best_path)
    /\ jp_result.alternatives[1].quality < jp_result.quality

\* ------------------------------------------------------------------------
\* Properties of inspect_join
\* ------------------------------------------------------------------------
\* inspect_join returned a result
Inspected == ij_pc = "done" /\ ~ij_raised

\* C10: whenever inspect_join returns a class other than UNKNOWN, the class
\* is the one that isUniqueA = (distinctA = rowsA) and isUniqueB = (distinctB =
\* rowsB) determine: 1:1, 1:N, N:1, M:N for (true, true), (true, false),
\* (false, true), (false, false), whatever the join row count.
C10_ClassFromUniqueness ==
    (Inspected /\ ij_result.cardinality # "UNKNOWN") =>
        LET isUniqueA == (ij_distinct_key1 = ij_result.table1_row_count)
            isUniqueB == (ij_distinct_key2 = ij_result.table2_row_count)
        IN /\ ij_result.cardinality = "1:1" <=> (isUniqueA /\ isUniqueB)
           /\ ij_result.cardinality = "1:N" <=> (isUniqueA /\ ~isUniqueB)
           /\ ij_result.cardinality = "N:1" <=> (~isUniqueA /\ isUniqueB)
           /\ ij_result.cardinality = "M:N" <=> (~isUniqueA /\ ~isUniqueB)

\* a join classified N:1 although it matches no row
C10_Witness ==
    /\ Inspected
    /\ ij_result.cardinality = "N:1"
    /\ ij_result.join_result_count = 0
    /\ ij_result.table1_row_count = 2

\* inspect_join returned a class other than UNKNOWN
Classified == Inspected /\ ij_result.cardinality # "UNKNOWN"

\* the class of the join seen from the other side
SwapClass(cardinality) ==
    CASE cardinality = "1:N" -> "N:1"
      [] cardinality = "N:1" -> "1:N"
      [] OTHER -> cardinality

\* C11: exchanging the two sides of an inspected join (table and key of
\* side A with those of side B, same statistics) turns class 1:N into N:1,
\* N:1 into 1:N and leaves 1:1 and M:N as they are.
C11_SwapExchangesMixedClasses ==
    Classified =>
        JoinCardinality(ij_distinct_key2, ij_table2_count, ij_distinct_key1, ij_table1_count)
            = SwapClass(ij_result.cardinality)

\* a join classified 1:N that matches rows
C11_Witness ==
    /\ Classified
    /\ ij_result.cardinality = "1:N"
    /\ ij_result.join_result_count > 0
    /\ JoinCardinality(ij_distinct_key2, ij_table2_count, ij_distinct_key1, ij_table1_count) = "N:1"

\* the join multiplies rows: joinRowCount > 1.5 x max(rowsA, rowsB)
FanOut ==
    2 * ij_result.join_result_count
        > 3 * Max(ij_result.table1_row_count, ij_result.table2_row_count)

\* the statement of C12 as written: the fan-out warning is emitted exactly
\* when the join multiplies rows, whatever the class
C12_Original ==
    Classified => (ij_result.warning_message = "data_multiplication" <=> FanOut)

\* C12: for a successfully inspected join the fan-out warning is emitted
\* exactly when the class is M:N and joinRowCount > 1.5 x max(rowsA, rowsB);
\* a join of any other class gets no fan-out warning whatever its row count,
\* and a join whose row count equals max(rowsA, rowsB) gets none.
C12_FanOutWarningOnlyForManyToMany ==
    Classified =>
        /\ ij_result.warning_message = "data_multiplication"
              <=> (ij_result.cardinality = "M:N" /\ FanOut)
        /\ (ij_result.join_result_count
                = Max(ij_result.table1_row_count, ij_result.table2_row_count)
             /\ ij_result.join_result_count > 0)
              => ij_result.warning_message = None

\* a 1:N join that multiplies rows and carries no warning
C12_Witness ==
    /\ Classified
    /\ ij_result.cardinality = "1:N"
    /\ FanOut
    /\ ij_result.warning_message = None

\* C13: inspect_join never raises; a missing join column and every other
\* failure of the data store give a result of class UNKNOWN.
C13_NeverRaises ==
    ij_pc = "done" =>
        /\ ~ij_raised
        /\ (ij_error_message # None => ij_result.cardinality = "UNKNOWN")

\* ------------------------------------------------------------------------
\* Properties of lookup_column_values
\* ------------------------------------------------------------------------
\* a call of lookup_column_values has returned
LookedUp == tool_pc = "returned" /\ invocation.op = "lookup_column_values"

\* the search literal of the call is stored in the column
LiteralStored == invocation.search_term.text \in DOMAIN invocation.column

\* the found flag of the result; "absent" when the dict has no such key
Found == Get(tool_result, "exact_match", "absent")

\* the statement of C14 as written, for the lookups that succeed: for every
\* search literal, found is true when the literal equals a stored value and
\* not true (False or None) when it equals none
C14_Original ==
    (LookedUp /\ invocation.search_term.given /\ invocation.failure = "none") =>
        IF LiteralStored THEN Found = "True" ELSE Found \in {"False", None}

\* C14: for every column and every non-empty search literal, when the
\* queries of the lookup succeed, found (exact_match) is true if the literal
\* equals a stored value and false if it equals none; for an empty literal
\* no search is made and found is None; a failed lookup reports no found flag.
C14_FoundIffStored ==
    (LookedUp /\ invocation.search_term.given) =>
        Found = (IF invocation.failure # "none" THEN "absent"
                 ELSE IF invocation.search_term.text = <<>> THEN None
                 ELSE IF LiteralStored THEN "True" ELSE "False")

\* a literal that is part of a stored value and equal to none is not found
C14_Witness ==
    /\ LookedUp
    /\ invocation.search_term = Term(Sm)
    /\ JoSm \in DOMAIN invocation.column
    /\ Found = "False"

\* the words of length >= 2 of a text split at commas and white space
LiteralWords(text) == LET ws == SplitWords(text, <<>>) IN {ws[i] : i \in 1..Len(ws)}

\* value contains text as a substring
HasSubstring(value, text) ==
    \E i \in 0..Len(value) - Len(text) : SubSeq(value, i + 1, i + Len(text)) = text

\* C15: when the literal has neither an exact nor a substring match the
\* lookup returns the stored values containing every word of the literal as
\* the first suggestion (ALL_WORDS) and the matches of the single words as
\* further suggestions; when an exact or substring match exists no words are
\* searched.
C15_WordDecomposition ==
    (LookedUp /\ invocation.failure = "none" /\ invocation.search_term.text # <<>>) =>
        LET text == invocation.search_term.text
            stored == DOMAIN invocation.column
            matched == LiteralStored \/ \E v \in stored : HasSubstring(v, text)
        IN IF matched THEN tool_result.word_matches.kind # "dict"
           ELSE /\ tool_result.word_matches.kind = "dict"
                /\ Cardinality(LiteralWords(text)) >= 2 =>
                      {r.value : r \in tool_result.word_matches.ALL_WORDS}
                        = {v \in stored : \A w \in LiteralWords(text) : HasSubstring(v, w)}
                /\ \A w \in LiteralWords(text) :
                      (\E v \in stored : HasSubstring(v, w)) =>
                          /\ w \in DOMAIN tool_result.word_matches.words
                          /\ {r.value : r \in tool_result.word_matches.words[w]}
                                = {v \in stored : HasSubstring(v, w)}

\* ------------------------------------------------------------------------
\* Properties of the execution of a candidate
\* ------------------------------------------------------------------------
\* an execution has returned after sending a query to the data store
Executed ==
    /\ tool_pc = "returned"
    /\ invocation.op \in {"_execute_sql", "execute_sql"}
    /\ tool_result.executed # <<>>

\* the text has a LIMIT clause
HasLimitClause(query) == \E i \in 1..Len(query) : IsWord(UpperTok(query[i]), "LIMIT")

\* C16: every candidate SELECT is executed with a LIMIT clause: the
\* execution appends one when the query has none, and a query with its own
\* LIMIT clause is executed unchanged.
C16_EveryCandidateRowCapped ==
    (Executed /\ IsWord(UpperTok(invocation.sql[1]), "SELECT")) =>
        /\ HasLimitClause(tool_result.executed)
        /\ HasLimitClause(invocation.sql) => tool_result.executed = invocation.sql

\* the four outcomes of the execution
OutcomeClass(r) ==
    CASE r.success /\ r.row_count > 0 /\ r.error_type = None -> "SUCCESS_NONEMPTY"
      [] r.success /\ r.row_count = 0 /\ r.error_type = "empty_result" -> "SUCCESS_EMPTY"
      [] ~r.success /\ r.error_type = "timeout" -> "TIMEOUT"
      [] ~r.success /\ r.error_type = "syntax_error" /\ r.error # None -> "SYNTAX_ERROR"
      [] OTHER -> "none"

\* C17: whatever the data store does, _execute_sql returns one of the four
\* outcomes (success with rows, success without rows flagged empty_result,
\* timeout, syntax_error with the message), and success is true exactly
\* when no error is recorded.
C17_StructuredOutcome ==
    (tool_pc = "returned" /\ invocation.op = "_execute_sql") =>
        /\ OutcomeClass(tool_result.result) # "none"
        /\ tool_result.result.success <=> tool_result.result.error = None

\* closing the connection did not itself fail
CloseWorks ==
    IF invocation.op = "lookup_column_values" THEN invocation.failure # "close"
    ELSE invocation.behaviour.db.close_ok

\* C18: a connection opened by an invocation is released before the
\* invocation returns, on every exit path (taken here over the paths on
\* which closing does not itself fail).
C18_ConnectionsReleased ==
    (tool_pc = "returned" /\ CloseWorks) => open_connections = 0

Noted == tool_pc = "returned" /\ invocation.op = "generate_note"

XA == [t |-> "X", c |-> "A"]

YB == [t |-> "Y", c |-> "B"]

\* the item's only join key is the pair (X.a, Y.b), in either order and in
\* any letter case
HintsXaYb(an_item) ==
    /\ Len(an_item.join_keys) = 1
    /\ Len(an_item.join_keys[1]) = 2
    /\ {Canon(an_item.join_keys[1][1]), Canon(an_item.join_keys[1][2])} = {XA, YB}

\* the text contains JOIN Y ON X.a = Y.b, the two columns in either order, in
\* any letter case
ContainsJoinXaYb(query) ==
    LET s == UpperSql(query)
    IN \E i \in 1..Len(s) :
          /\ i + 5 <= Len(s)
          /\ IsWord(s[i], "JOIN") /\ IsWord(s[i + 1], "Y") /\ IsWord(s[i + 2], "ON")
          /\ s[i + 4] = Sym("=")
          /\ <<s[i + 3], s[i + 5]>> \in {<<R("X", "A"), R("Y", "B")>>,
                                         <<R("Y", "B"), R("X", "A")>>}

\* C19: hints whose join pair is (X.a, Y.b) are satisfied (no missing join,
\* no join line in the note) by every query that contains
\* JOIN Y ON X.a = Y.b, whichever order the two columns have in the hint or
\* in the ON condition and whatever their letter case.
C19_JoinPairSatisfied ==
    (Noted /\ HintsXaYb(invocation.item) /\ ContainsJoinXaYb(invocation.sql))
        => /\ Cardinality(tool_result.comparison.missing_joins) = 0
           /\ "Join Check" \notin tool_result.notes

\* the hint is written (y.b, x.a) in lower case, the ON condition X.a = Y.b in
\* upper case: the orders and the cases differ, and no join is missing
C19_Witness ==
    /\ Noted
    /\ invocation.item = JoinItem(R("y", "b"), R("x", "a"))
    /\ ContainsJoinXaYb(invocation.sql)
    /\ \E i \in 1..Len(invocation.sql) : invocation.sql[i] = R("X", "a")
                                          /\ i + 2 <= Len(invocation.sql)
                                          /\ invocation.sql[i + 2] = R("Y", "b")
    /\ Cardinality(tool_result.comparison.missing_joins) = 0

\* the aliases a text declares: after FROM or a JOIN keyword, a table name
\* followed by AS and a name, or by a name that is no keyword; every table
\* is also its own alias
DeclaredAliases(s) ==
    LET starts == {i \in 1..Len(s) : KwLen(s, i) > 0 /\ i + KwLen(s, i) <= Len(s)
                                       /\ s[i + KwLen(s, i)].k = "w"}
        decl == {[table |-> s[i + KwLen(s, i)].a,
                  alias |-> LET j == i + KwLen(s, i)
                            IN IF j + 2 <= Len(s) /\ IsWord(s[j + 1], "AS")
                                  /\ s[j + 2].k = "w"
                               THEN s[j + 2].a
                               ELSE IF j + 1 <= Len(s) /\ s[j + 1].k = "w"
                                       /\ s[j + 1].a \notin sql_keywords
                               THEN s[j + 1].a
                               ELSE s[j].a] : i \in starts}
        own == {[table |-> d.table, alias |-> d.table] : d \in decl}
        names == {d.alias : d \in decl \cup own}
    IN [al \in names |->
           IF \E d \in decl : d.alias = al /\ d.table # al
           THEN (CHOOSE d \in decl : d.alias = al /\ d.table # al).table
           ELSE al]

\* C20: parse_sql resolves the alias of every table that follows FROM or a
\* JOIN keyword (explicit alias with or without AS; a table without alias is
\* its own alias): the columns of the SELECT, WHERE and GROUP BY clauses and
\* of the ON conditions, and the join pairs, are reported as TABLE.COLUMN of
\* the real table.
C20_AliasesResolved ==
    Noted =>
        LET s == UpperSql(invocation.sql)
            tabs == DeclaredAliases(s)
            joins == JoinMatches(s, tabs, 1)
        IN /\ tool_result.sql_parsed.joins = joins
           /\ tool_result.sql_parsed.columns =
                  SelectColumns(s, tabs) \cup WhereColumns(s, tabs)
                      \cup GroupColumns(s, tabs)
                      \cup UNION {{joins[i][1], joins[i][2]} : i \in 1..Len(joins)}

RefineRequested ==
    /\ pc = "note_regen"
    /\ messages # <<>>
    /\ messages[Len(messages)].body.kind = "note_refine"

\* the outcome class of an execution result, as the note marks it
DiagnosisMark(result) ==
    IF result.success /\ result.row_count > 0 THEN "ok"
    ELSE IF result.success THEN "warn" ELSE "err"

\* C22: when a round does not satisfy the stop condition and rounds remain,
\* the refine prompt carries the execution diagnosis of the round (outcome
\* class and, for a failed execution, the captured error message), one
\* checklist line for every missing table, column and join, and the critique
\* text whenever the critique flagged an issue.
C22_RefinePromptBundle ==
    RefineRequested =>
        LET prompt == messages[Len(messages)].body
            last_note == prompt.note.iters[Len(prompt.note.iters)]
            cmp == compare(hints_parsed, parse_sql(SqlText(sql)))
        IN /\ last_note.refine_feedback.mark = DiagnosisMark(exec_result)
           /\ ~exec_result.success =>
                 /\ last_note.refine_feedback.error_type = exec_result.error_type
                 /\ last_note.refine_feedback.short_error = exec_result.error
           /\ \A x \in cmp.missing_columns :
                 [mark |-> "unchecked", what |-> "column", item |-> {x}] \in prompt.issues.lines
           /\ \A x \in cmp.missing_joins :
                 [mark |-> "unchecked", what |-> "join", item |-> x] \in prompt.issues.lines
           /\ \A x \in cmp.missing_tables :
                 [mark |-> "unchecked", what |-> "table", item |-> {[t |-> x, c |-> ""]}]
                     \in prompt.issues.lines
           /\ llm_feedback # None => prompt.llm_review = llm_feedback

\* the step is a set_item call: a new question starts
NewQuestion == \E it \in Items \cup {NoItem} : NtSetItem(it)

\* the first n records are still there after the step, unchanged
RecordsKept(n) ==
    \A i \in 1..n : i <= Len(iter_notes') /\ iter_notes'[i] = iter_notes[i]

\* the original statement: no operation within a question touches a record
C23_Original ==
    [][~NewQuestion => RecordsKept(Len(iter_notes))]_vars

\* C23: while a question is processed (between two set_item calls) the
\* records of iter_notes stay in place: every operation keeps all records
\* but the last unchanged, and the last one unchanged except for its critique
\* (llm_feedback), which update_llm_feedback rewrites.
C23_AppendOnlyExceptLastCritique ==
    [][~NewQuestion =>
          /\ Len(iter_notes') >= Len(iter_notes)
          /\ RecordsKept(Len(iter_notes) - 1)
          /\ iter_notes # <<>> =>
                LET n == Len(iter_notes)
                IN iter_notes'[n] =
                       [iter_notes[n] EXCEPT !.llm_feedback = iter_notes'[n].llm_feedback]]_vars

\* the critique of the second record was rewritten, the first record kept its own
C23_Witness ==
    /\ Len(iter_notes) = 2
    /\ iter_notes[1].llm_feedback = "LIMIT is not asked for"
    /\ iter_notes[2].llm_feedback = "DISTINCT is missing"

\* the records of all_results made for dataset item i
RecordsOf(i) == {k \in 1..Len(batch_results) : batch_results[k].item = i}

PoolDrained ==
    /\ batch_pc \in {"collecting", "sorted", "persisted"}
    /\ \A i \in 1..Len(dataset) : task_pc[i] = "collected"

\* C24: whatever order the tasks complete in, the persisted predictions are
\* in submission order: entry i is the result of dataset item i.
C24_PersistedInSubmissionOrder ==
    (batch_pc = "persisted" /\ Len(predictions) = Len(dataset))
        => \A i \in 1..Len(dataset) : predictions[i].item = i

\* C25: once the pool has drained the result collection holds exactly one
\* record per submitted question; a failed task is one error record.
C25_OneRecordPerQuestion ==
    PoolDrained =>
        \A i \in 1..Len(dataset) :
            /\ Cardinality(RecordsOf(i)) = 1
            /\ Len(batch_results) = Len(dataset)

SwappedEdge(e) ==
    [key1 |-> e.key2, key2 |-> e.key1, pk1 |-> e.pk2, pk2 |-> e.pk1,
     uniqueness1 |-> e.uniqueness2, uniqueness2 |-> e.uniqueness1]

\* graph[a][b] has the mirror graph[b][a]
Mirrored(a, b) ==
    /\ <<b, a>> \in DOMAIN jp_graph.edge
    /\ jp_graph.edge[<<b, a>>] = SwappedEdge(jp_graph.edge[<<a, b>>])

\* C26: after build_enhanced_graph has processed any list of relationship
\* records (several records for one pair of tables and records relating a
\* table to itself included), every stored edge graph[a][b] has a mirror
\* edge graph[b][a] with the same join columns, recommended keys and
\* uniqueness values, the two sides swapped.
C26_EveryEdgeMirrored ==
    jp_pc # "input" => \A p \in DOMAIN jp_graph.edge : Mirrored(p[1], p[2])

\* the outcome has an enabled agent
Handled(result) ==
    \/ result.error_type = "syntax_error" /\ cfg.syntax_fixer
    \/ result.error_type = "empty_result" /\ cfg.empty_handler

\* the outcome ends the refinement
Ending(result) ==
    \/ result.success /\ result.row_count > 0
    \/ result.error_type = "timeout"
    \/ result.error_type = "syntax_error" /\ ~cfg.syntax_fixer
    \/ result.error_type = "empty_result" /\ ~cfg.empty_handler

\* the step executes a candidate in the refine loop without note-taking
RefineExecutes == pc = "refine_round" /\ Len(exec_log') = Len(exec_log) + 1

\* C28: in the refine loop without note-taking a round requests a
\* regeneration only when the outcome of the executed candidate is
\* syntax_error with the syntax fixer enabled or empty_result with the
\* empty-result handler enabled; success with rows, a timeout or an outcome
\* whose agent is disabled ends the refinement with the candidate unchanged;
\* the loop executes and regenerates at most max_refine_iterations times.
C28_RefineOnlyOnHandledOutcome ==
    [][/\ (pc # "refine_regen" /\ pc' = "refine_regen")
            => RefineExecutes /\ Handled(exec_result')
       /\ Count(gen_log', "refine_regen") > Count(gen_log, "refine_regen")
            => pc = "refine_regen" /\ Handled(exec_result)
       /\ (RefineExecutes /\ Ending(exec_result'))
            => pc' = "return" /\ sql' = sql /\ response' = response
                 /\ gen_log' = gen_log
       /\ ~NoteTakerExists
            => /\ Len(exec_log') <= cfg.max_refine
               /\ Count(gen_log', "refine_regen") <= cfg.max_refine]_vars

\* a run whose first round was regenerated after an empty result and whose
\* second round ended the refinement on a timeout, the budget of two used up
C28_Witness ==
    /\ pc = "return" /\ brk = "no_feedback"
    /\ cfg.max_refine = 2 /\ cfg.empty_handler /\ cfg.syntax_fixer
    /\ Len(exec_log) = 2
    /\ Count(gen_log, "refine_regen") = 1
    /\ exec_result.error_type = "timeout"
    /\ sql = exec_log[2]

\* generate has returned a SQL answer after a refine loop ran
ReturnedSqlAfterLoop ==
    /\ pc \in {"returned", "done"}
    /\ returned.kind = "wrapper"
    /\ exec_log # <<>>
    /\ returned.response.content.kind = "sql"

\* the SQL of the answer returned
FinalSql == returned.response.content.cand

\* the original statement: the final SQL was executed, whichever loop ran
C29_Original == ReturnedSqlAfterLoop => FinalSql \in Range(exec_log)

\* C29: whenever generate returns a SQL answer after the note-taking loop,
\* that final SQL was executed and classified during the loop; after the
\* refine loop without note-taking the final SQL was executed during the
\* loop or is the candidate regenerated in the loop's last permitted round,
\* returned unexecuted when max_refine_iterations rounds were used.
C29_FinalSqlExecutedOrLastRegenerated ==
    ReturnedSqlAfterLoop =>
        IF NoteTakerExists
        THEN FinalSql \in Range(exec_log)
        ELSE \/ FinalSql \in Range(exec_log)
             \/ /\ brk = "loop_end"
                /\ Len(exec_log) = cfg.max_refine
                /\ Count(gen_log, "refine_regen") = cfg.max_refine
                /\ FinalSql = sql

\* two rounds of the refine loop without note-taking were used and the
\* answer of the second regeneration is returned unexecuted
C29_Witness ==
    /\ ReturnedSqlAfterLoop
    /\ ~NoteTakerExists
    /\ cfg.max_refine = 2
    /\ Len(exec_log) = 2
    /\ FinalSql \notin Range(exec_log)

\* check_distinct_need has returned
DistinctReturned == tool_pc = "returned" /\ invocation.op = "check_distinct_need"

\* the n-th supplied pair has unique keys on both sides and its queries answer
AnalysedOneToOne(pair) ==
    /\ pair.shape = "ok" /\ pair.query = "ok"
    /\ pair.left.total = pair.left.distinct_count
    /\ pair.right.total = pair.right.distinct_count

\* C30: check_distinct_need reports risk_level 'low' with needs_distinct
\* false only when every supplied join pair was analysed and classified 1:1;
\* it reports 'high' if a pair is M:N and otherwise 'medium' if a pair is 1:N
\* or N:1, and 'none' only when no join pair is supplied.
C30_LowOnlyWhenAllOneToOne ==
    DistinctReturned =>
        LET pairs == invocation.join_pairs
            cards == tool_result.cardinality_analysis
            mn == \E n \in 1..Len(cards) : cards[n] = "M:N"
            one_n == \E n \in 1..Len(cards) : cards[n] \in {"1:N", "N:1"}
        IN /\ (tool_result.risk_level = "low" /\ tool_result.needs_distinct = "False")
                => \A n \in 1..Len(pairs) : AnalysedOneToOne(pairs[n])
           /\ mn => tool_result.risk_level = "high"
           /\ (~mn /\ one_n) => tool_result.risk_level = "medium"
           /\ tool_result.risk_level = "none" => pairs = <<>>

====
